---------------------------- MODULE Spec2Model ----------------------------
(***************************************************************************)
(* Model of pkg/docker/config/config.go: the credential store that reads,  *)
(* writes and removes registry credentials across a chain of credential    *)
(* helpers (the built-in auth-file helper and external helper programs).   *)
(*                                                                         *)
(* Strings are sequences of one-character strings, so that prefix tests,   *)
(* cuts, base64 and trimming are computed as the Go code computes them.    *)
(***************************************************************************)
EXTENDS Integers, Sequences, FiniteSets, TLC

(***************************************************************************)
(* Strings (package strings)                                               *)
(***************************************************************************)

\* the zero byte "\x00"
NUL == "^@"

HasPrefix(s, p) ==
    /\ Len(s) >= Len(p)
    /\ SubSeq(s, 1, Len(p)) = p

TrimPrefix(s, p) ==
    IF HasPrefix(s, p) THEN SubSeq(s, Len(p) + 1, Len(s)) ELSE s

ContainsRune(s, c) == \E i \in 1..Len(s) : s[i] = c

\* strings.IndexRune, 1-based; 0 stands for Go's -1
IndexRune(s, c) ==
    IF ContainsRune(s, c)
    THEN CHOOSE i \in 1..Len(s) : s[i] = c /\ \A j \in 1..(i - 1) : s[j] # c
    ELSE 0

\* strings.LastIndex for a one-character separator, 1-based; 0 stands for -1
LastIndex(s, c) ==
    IF ContainsRune(s, c)
    THEN CHOOSE i \in 1..Len(s) : s[i] = c /\ \A j \in (i + 1)..Len(s) : s[j] # c
    ELSE 0

\* strings.Cut for a one-character separator
Cut(s, c) ==
    LET i == IndexRune(s, c) IN
    IF i = 0
    THEN [before |-> s, after |-> <<>>, found |-> FALSE]
    ELSE [before |-> SubSeq(s, 1, i - 1), after |-> SubSeq(s, i + 1, Len(s)), found |-> TRUE]

RECURSIVE TrimLeft(_, _)
TrimLeft(s, c) ==
    IF Len(s) > 0 /\ s[1] = c THEN TrimLeft(Tail(s), c) ELSE s

RECURSIVE TrimRight(_, _)
TrimRight(s, c) ==
    IF Len(s) > 0 /\ s[Len(s)] = c THEN TrimRight(SubSeq(s, 1, Len(s) - 1), c) ELSE s

\* strings.Trim(s, cutset) for a one-character cutset: both ends are trimmed
Trim(s, c) == TrimRight(TrimLeft(s, c), c)

(***************************************************************************)
(* base64.StdEncoding over the bytes of the characters the model uses      *)
(***************************************************************************)

ByteChars == {NUL, ":", "<", ">", "e", "k", "n", "o", "p", "s", "t", "u", "v"}

Ord(c) ==
    CASE c = NUL -> 0
      [] c = ":" -> 58
      [] c = "<" -> 60
      [] c = ">" -> 62
      [] c = "e" -> 101
      [] c = "k" -> 107
      [] c = "n" -> 110
      [] c = "o" -> 111
      [] c = "p" -> 112
      [] c = "s" -> 115
      [] c = "t" -> 116
      [] c = "u" -> 117
      [] c = "v" -> 118

\* a byte outside ByteChars stays a number
Chr(b) ==
    IF \E c \in ByteChars : Ord(c) = b
    THEN CHOOSE c \in ByteChars : Ord(c) = b
    ELSE b

B64Table ==
    << "A", "B", "C", "D", "E", "F", "G", "H", "I", "J", "K", "L", "M",
       "N", "O", "P", "Q", "R", "S", "T", "U", "V", "W", "X", "Y", "Z",
       "a", "b", "c", "d", "e", "f", "g", "h", "i", "j", "k", "l", "m",
       "n", "o", "p", "q", "r", "s", "t", "u", "v", "w", "x", "y", "z",
       "0", "1", "2", "3", "4", "5", "6", "7", "8", "9", "+", "/" >>

B64Char(n) == B64Table[n + 1]

IsB64Char(c) == \E i \in 1..Len(B64Table) : B64Table[i] = c

B64Val(c) == (CHOOSE i \in 1..Len(B64Table) : B64Table[i] = c) - 1

RECURSIVE EncodeBytes(_)
EncodeBytes(bs) ==
    IF Len(bs) = 0 THEN <<>>
    ELSE IF Len(bs) = 1 THEN
        << B64Char(bs[1] \div 4), B64Char((bs[1] % 4) * 16), "=", "=" >>
    ELSE IF Len(bs) = 2 THEN
        << B64Char(bs[1] \div 4),
           B64Char((bs[1] % 4) * 16 + bs[2] \div 16),
           B64Char((bs[2] % 16) * 4), "=" >>
    ELSE
        << B64Char(bs[1] \div 4),
           B64Char((bs[1] % 4) * 16 + bs[2] \div 16),
           B64Char((bs[2] % 16) * 4 + bs[3] \div 64),
           B64Char(bs[3] % 64) >> \o EncodeBytes(SubSeq(bs, 4, Len(bs)))

\* base64.StdEncoding.EncodeToString([]byte(s))
EncodeToString(s) == EncodeBytes([i \in 1..Len(s) |-> Ord(s[i])])

\* one quantum of four characters; "=" padding is legal only at the end of the input
DecodeQuantum(q, last) ==
    IF IsB64Char(q[1]) /\ IsB64Char(q[2]) /\ IsB64Char(q[3]) /\ IsB64Char(q[4]) THEN
        [ok |-> TRUE,
         bytes |-> << B64Val(q[1]) * 4 + B64Val(q[2]) \div 16,
                      (B64Val(q[2]) % 16) * 16 + B64Val(q[3]) \div 4,
                      (B64Val(q[3]) % 4) * 64 + B64Val(q[4]) >>]
    ELSE IF last /\ IsB64Char(q[1]) /\ IsB64Char(q[2]) /\ IsB64Char(q[3]) /\ q[4] = "=" THEN
        [ok |-> TRUE,
         bytes |-> << B64Val(q[1]) * 4 + B64Val(q[2]) \div 16,
                      (B64Val(q[2]) % 16) * 16 + B64Val(q[3]) \div 4 >>]
    ELSE IF last /\ IsB64Char(q[1]) /\ IsB64Char(q[2]) /\ q[3] = "=" /\ q[4] = "=" THEN
        [ok |-> TRUE, bytes |-> << B64Val(q[1]) * 4 + B64Val(q[2]) \div 16 >>]
    ELSE [ok |-> FALSE, bytes |-> <<>>]

RECURSIVE DecodeChars(_)
DecodeChars(t) ==
    IF Len(t) = 0 THEN [ok |-> TRUE, bytes |-> <<>>]
    ELSE IF Len(t) < 4 THEN [ok |-> FALSE, bytes |-> <<>>]
    ELSE
        LET q == DecodeQuantum(SubSeq(t, 1, 4), Len(t) = 4)
            rest == DecodeChars(SubSeq(t, 5, Len(t)))
        IN  IF q.ok /\ rest.ok
            THEN [ok |-> TRUE, bytes |-> q.bytes \o rest.bytes]
            ELSE [ok |-> FALSE, bytes |-> <<>>]

\* base64.StdEncoding.DecodeString(t), the bytes read back as a string
DecodeString(t) ==
    LET d == DecodeChars(t) IN
    [ok |-> d.ok, str |-> [i \in 1..Len(d.bytes) |-> Chr(d.bytes[i])]]

(***************************************************************************)
(* Key validator and normalizers                                           *)
(***************************************************************************)

HttpPrefix  == << "h", "t", "t", "p", ":", "/", "/" >>
HttpsPrefix == << "h", "t", "t", "p", "s", ":", "/", "/" >>

DockerIO         == << "d", "o", "c", "k", "e", "r", ".", "i", "o" >>
IndexDockerIO    == << "i", "n", "d", "e", "x", "." >> \o DockerIO
Registry1DockerIO == << "r", "e", "g", "i", "s", "t", "r", "y", "-", "1", "." >> \o DockerIO

\* An error is a sequence of tags, the outermost wrapper first; nil is the empty sequence.
NoErr == << >>
Err(tag) == << tag >>
Wrap(tag, err) == << tag >> \o err

\* validateKey without the check for a ':' after host[:port]
validateKeyAnyTag(k) ==
    IF HasPrefix(k, HttpPrefix) \/ HasPrefix(k, HttpsPrefix)
    THEN [isNamespaced |-> FALSE, err |-> Err("InvalidKey")]
    ELSE IF ContainsRune(k, "@")
    THEN [isNamespaced |-> FALSE, err |-> Err("InvalidKey")]
    ELSE [isNamespaced |-> IndexRune(k, "/") # 0, err |-> NoErr]

\* validateKey: whether the key is namespaced, and the error
validateKey(k) ==
    IF HasPrefix(k, HttpPrefix) \/ HasPrefix(k, HttpsPrefix)
    THEN [isNamespaced |-> FALSE, err |-> Err("InvalidKey")]
    ELSE IF ContainsRune(k, "@")
    THEN [isNamespaced |-> FALSE, err |-> Err("InvalidKey")]
    ELSE
        LET firstSlash == IndexRune(k, "/")
            isNamespaced == firstSlash # 0
        IN  IF isNamespaced /\ ContainsRune(SubSeq(k, firstSlash + 1, Len(k)), ":")
            THEN [isNamespaced |-> FALSE, err |-> Err("InvalidKey")]
            ELSE [isNamespaced |-> isNamespaced, err |-> NoErr]

\* the registry part of a key (getCredentialsWithHomeDir)
RegistryOf(k) ==
    LET firstSlash == IndexRune(k, "/") IN
    IF firstSlash # 0 THEN SubSeq(k, 1, firstSlash - 1) ELSE k

normalizeRegistry(registry) ==
    IF registry = Registry1DockerIO \/ registry = DockerIO
    THEN IndexDockerIO
    ELSE registry

normalizeAuthFileKey(k, legacyFormat) ==
    LET stripped == TrimPrefix(TrimPrefix(k, HttpPrefix), HttpsPrefix)
        cut == IF legacyFormat \/ stripped # k
               THEN Cut(stripped, "/").before
               ELSE stripped
    IN  normalizeRegistry(cut)

\* authKeysForKey with the worst match first
RECURSIVE authKeysWorstFirst(_)
authKeysWorstFirst(k) ==
    LET lastSlash == LastIndex(k, "/") IN
    IF lastSlash = 0
    THEN << k >>
    ELSE authKeysWorstFirst(SubSeq(k, 1, lastSlash - 1)) \o << k >>

\* authKeysForKey: the key, then the key with its last segments dropped, best match first
RECURSIVE authKeysForKey(_)
authKeysForKey(k) ==
    LET lastSlash == LastIndex(k, "/") IN
    IF lastSlash = 0
    THEN << k >>
    ELSE << k >> \o authKeysForKey(SubSeq(k, 1, lastSlash - 1))

(***************************************************************************)
(* Credential records                                                      *)
(***************************************************************************)

\* types.DockerAuthConfig{}
EmptyCreds == [Username |-> <<>>, Password |-> <<>>, IdentityToken |-> <<>>]

\* dockerAuthConfig
AuthEntry(auth, token) == [Auth |-> auth, IdentityToken |-> token]

\* decodeDockerAuth: the decoded record and the error
decodeDockerAuth(conf) ==
    LET decoded == DecodeString(conf.Auth) IN
    IF ~decoded.ok
    THEN [creds |-> EmptyCreds, err |-> Err("Base64Error")]
    ELSE
        LET c == Cut(decoded.str, ":") IN
        IF ~c.found
        THEN [creds |-> EmptyCreds, err |-> NoErr]
        ELSE [creds |-> [Username |-> c.before,
                         Password |-> Trim(c.after, NUL),
                         IdentityToken |-> conf.IdentityToken],
              err |-> NoErr]

(***************************************************************************)
(* State                                                                   *)
(***************************************************************************)

VARIABLES
    sys,        \* types.SystemContext: the three path fields
    env,        \* runtime.GOOS, the environment variables, whether $XDG_RUNTIME_DIR exists
    helpers,    \* sysregistriesv2.CredentialHelpers(sys): the ordered helper chain
    hmode,      \* per external helper program: "ok", "error" (fails), "missing" (no executable)
    fs,         \* the files that exist: path -> JSON document
    hs,         \* per external helper program: registry -> [Username, Secret]
    args,       \* the key and login the caller of this behaviour passes
    hist,       \* the completed API calls, oldest first
    txn         \* the modifyJSON call that is under way, step by step

vars == << sys, env, helpers, hmode, fs, hs, args, hist, txn >>

\* sysregistriesv2.AuthenticationFileHelper
AuthenticationFileHelper == "containers-auth.json"

\* a map that has no entry (also Go's nil map: reads of both agree)
EmptyMap == << >>

MapPut(m, k, v) == [x \in (DOMAIN m) \cup {k} |-> IF x = k THEN v ELSE m[x]]

MapDelete(m, k) == [x \in (DOMAIN m) \ {k} |-> m[x]]

(***************************************************************************)
(* Path resolver                                                           *)
(***************************************************************************)

\* filepath.Join: paths are sequences of components, "" is the empty sequence
Join(dir, rel) == dir \o << rel >>

HomeDir == << "home" >>

defaultPerUIDPath    == << "run", "containers", "uid", "auth.json" >>
xdgConfigHomePath    == "containers/auth.json"
xdgRuntimeDirPath    == "containers/auth.json"
dockerHomePath       == ".docker/config.json"
dockerLegacyHomePath == ".dockercfg"
nonLinuxAuthFilePath == ".config/containers/auth.json"

authPath(path, legacyFormat) == [path |-> path, legacyFormat |-> legacyFormat]

newAuthPathDefault(path) == authPath(path, FALSE)

\* getPathToAuthWithOS(sys, goOS)
getPathToAuth ==
    IF sys.AuthFilePath # <<>> THEN
        [path |-> newAuthPathDefault(sys.AuthFilePath), userSpecified |-> TRUE, err |-> NoErr]
    ELSE IF sys.LegacyFormatAuthFilePath # <<>> THEN
        [path |-> authPath(sys.LegacyFormatAuthFilePath, TRUE), userSpecified |-> TRUE, err |-> NoErr]
    ELSE IF sys.RootForImplicitAbsolutePaths # <<>> THEN
        [path |-> newAuthPathDefault(sys.RootForImplicitAbsolutePaths \o defaultPerUIDPath),
         userSpecified |-> FALSE, err |-> NoErr]
    ELSE IF env.goOS = "windows" \/ env.goOS = "darwin" THEN
        [path |-> newAuthPathDefault(Join(HomeDir, nonLinuxAuthFilePath)),
         userSpecified |-> FALSE, err |-> NoErr]
    ELSE IF env.XDG_RUNTIME_DIR # <<>> THEN
        IF ~env.runtimeDirExists
        THEN [path |-> authPath(<<>>, FALSE), userSpecified |-> FALSE, err |-> Err("RuntimeDirMissing")]
        ELSE [path |-> newAuthPathDefault(Join(env.XDG_RUNTIME_DIR, xdgRuntimeDirPath)),
              userSpecified |-> FALSE, err |-> NoErr]
    ELSE [path |-> newAuthPathDefault(defaultPerUIDPath), userSpecified |-> FALSE, err |-> NoErr]

\* getAuthFilePaths(sys, homeDir)
getAuthFilePaths ==
    LET p == getPathToAuth
        first == IF p.err = NoErr THEN << p.path >> ELSE << >>
        xdgCfgHome == IF env.XDG_CONFIG_HOME = <<>>
                      THEN Join(HomeDir, ".config")
                      ELSE env.XDG_CONFIG_HOME
        docker == IF env.DOCKER_CONFIG # <<>>
                  THEN newAuthPathDefault(Join(env.DOCKER_CONFIG, "config.json"))
                  ELSE newAuthPathDefault(Join(HomeDir, dockerHomePath))
    IN  IF p.userSpecified
        THEN first
        ELSE first \o << newAuthPathDefault(Join(xdgCfgHome, xdgConfigHomePath)),
                         docker,
                         authPath(Join(HomeDir, dockerLegacyHomePath), TRUE) >>

(***************************************************************************)
(* File store: the JSON documents and their (un)marshalling                *)
(***************************************************************************)

AuthsField       == << "a", "u", "t", "h", "s" >>
CredHelpersField == << "c", "r", "e", "d", "H", "e", "l", "p", "e", "r", "s" >>

\* A JSON document on disk is one of
\*   [fmt |-> "modern", fields |-> f]  an object whose fields "auths" and "credHelpers",
\*                                     where present (DOMAIN f), hold the two maps
\*   [fmt |-> "legacy", auths |-> m]   an object that is the auths map itself
\*   [fmt |-> "malformed"]             text that is no JSON
ModernDoc(fields) == [fmt |-> "modern", fields |-> fields]
LegacyDoc(auths)  == [fmt |-> "legacy", auths |-> auths]
MalformedDoc      == [fmt |-> "malformed"]

\* dockerConfigFile
ConfigFile(authConfigs, credHelpers) == [AuthConfigs |-> authConfigs, CredHelpers |-> credHelpers]

\* json.Unmarshal into dockerAuthConfig: the fields "auth" and "identitytoken" of every
\* entry, whatever else the entry holds
Declared(entries) ==
    [k \in DOMAIN entries |-> AuthEntry(entries[k].Auth, entries[k].IdentityToken)]

\* json.Unmarshal into dockerConfigFile: unknown fields are ignored, absent ones stay nil
UnmarshalModern(doc) ==
    IF doc.fmt = "modern" THEN
        ConfigFile(IF "auths" \in DOMAIN doc.fields THEN Declared(doc.fields["auths"])
                   ELSE EmptyMap,
                   IF "credHelpers" \in DOMAIN doc.fields THEN doc.fields["credHelpers"] ELSE EmptyMap)
    ELSE ConfigFile(EmptyMap, EmptyMap)

\* json.Unmarshal into map[string]dockerAuthConfig: every field of the object is an entry
UnmarshalLegacy(doc) ==
    IF doc.fmt = "legacy" THEN doc.auths
    ELSE [k \in {IF f = "auths" THEN AuthsField ELSE CredHelpersField : f \in DOMAIN doc.fields}
            |-> AuthEntry(<<>>, <<>>)]

\* authPath.parse: the document, or the empty one when the file does not exist
parse(path, files) ==
    IF path.path \notin DOMAIN files THEN
        [auths |-> ConfigFile(EmptyMap, EmptyMap), err |-> NoErr]
    ELSE IF files[path.path].fmt = "malformed" THEN
        [auths |-> ConfigFile(EmptyMap, EmptyMap), err |-> Err("ParseError")]
    ELSE IF path.legacyFormat THEN
        [auths |-> ConfigFile(UnmarshalLegacy(files[path.path]), EmptyMap), err |-> NoErr]
    ELSE [auths |-> UnmarshalModern(files[path.path]), err |-> NoErr]

\* json.MarshalIndent(auths): "auths" is always written, "credHelpers" is omitempty
MarshalIndent(auths) ==
    ModernDoc(IF auths.CredHelpers = EmptyMap
              THEN [f \in {"auths"} |-> auths.AuthConfigs]
              ELSE [f \in {"auths", "credHelpers"} |->
                        IF f = "auths" THEN auths.AuthConfigs ELSE auths.CredHelpers])

(***************************************************************************)
(* Helper adapter.  A world w = [fs, hs, tr] is the files, the helper       *)
(* programs' contents and the trace of what the running call did so far:   *)
(* <<"parse", path>>, <<"write", path>>, <<command, helper, argument>>.     *)
(* A helper program follows the credential-helper contract: get and erase  *)
(* of a registry it does not hold report "credentials not found".          *)
(***************************************************************************)

World(files, stores, tr) == [fs |-> files, hs |-> stores, tr |-> tr]

Traced(w, event) == [w EXCEPT !.tr = Append(@, event)]

TokenUsername == << "<", "t", "o", "k", "e", "n", ">" >>

\* getAuthFromCredHelper(credHelper, registry)
getAuthFromCredHelper(credHelper, registry, w) ==
    LET w1 == Traced(w, << "get", credHelper, registry >>) IN
    IF hmode[credHelper] # "ok" THEN
        [creds |-> EmptyCreds, err |-> Err("HelperError"), w |-> w1]
    ELSE IF registry \notin DOMAIN w.hs[credHelper] THEN
        \* IsErrCredentialsNotFoundMessage: err = nil
        [creds |-> EmptyCreds, err |-> NoErr, w |-> w1]
    ELSE
        LET c == w.hs[credHelper][registry] IN
        IF c.Username = TokenUsername
        THEN [creds |-> [Username |-> <<>>, Password |-> <<>>, IdentityToken |-> c.Secret],
              err |-> NoErr, w |-> w1]
        ELSE [creds |-> [Username |-> c.Username, Password |-> c.Secret, IdentityToken |-> <<>>],
              err |-> NoErr, w |-> w1]

\* setAuthToCredHelper(credHelper, registry, username, password)
setAuthToCredHelper(credHelper, registry, username, password, w) ==
    LET w1 == Traced(w, << "store", credHelper, registry >>) IN
    IF hmode[credHelper] # "ok" THEN
        [description |-> <<>>, err |-> Err("HelperError"), w |-> w1]
    ELSE
        [description |-> << "credential helper", credHelper >>,
         err |-> NoErr,
         w |-> [w1 EXCEPT !.hs[credHelper] =
                    MapPut(@, registry, [Username |-> username, Secret |-> password])]]

\* deleteAuthFromCredHelper(credHelper, registry)
deleteAuthFromCredHelper(credHelper, registry, w) ==
    LET w1 == Traced(w, << "erase", credHelper, registry >>) IN
    IF hmode[credHelper] # "ok" THEN
        [err |-> Err("HelperError"), w |-> w1]
    ELSE IF registry \notin DOMAIN w.hs[credHelper] THEN
        [err |-> Err("CredentialsNotFound"), w |-> w1]
    ELSE
        [err |-> NoErr, w |-> [w1 EXCEPT !.hs[credHelper] = MapDelete(@, registry)]]

\* listAuthsFromCredHelper(credHelper): the registries held
listAuthsFromCredHelper(credHelper, w) ==
    LET w1 == Traced(w, << "list", credHelper, <<>> >>) IN
    IF hmode[credHelper] = "missing" THEN
        [creds |-> {}, err |-> Err("ErrNotFound"), w |-> w1]
    ELSE IF hmode[credHelper] # "ok" THEN
        [creds |-> {}, err |-> Err("HelperError"), w |-> w1]
    ELSE [creds |-> DOMAIN w.hs[credHelper], err |-> NoErr, w |-> w1]

(***************************************************************************)
(* The editors: the closures SetCredentials, RemoveAuthentication and      *)
(* RemoveAllAuthentication pass to modifyJSON.  An editor becomes an       *)
(* operator on the parsed file and the state st it captures (st.w is the   *)
(* world); it returns [updated, description, err, auths, st].  The state   *)
(* of RemoveAuthentication's closures is st = [w, multiErr, isLoggedIn].   *)
(***************************************************************************)

unsupportedNamespaceErr == Err("NamespaceUnsupported")

\* SetEditor with the separator between username and password left out
SetEditorNoSeparator(k, isNamespaced, username, password, auths, st) ==
    IF k \in DOMAIN auths.CredHelpers THEN
        IF isNamespaced THEN
            [updated |-> FALSE, description |-> <<>>, err |-> unsupportedNamespaceErr,
             auths |-> auths, st |-> st]
        ELSE
            LET r == setAuthToCredHelper(auths.CredHelpers[k], k, username, password, st.w) IN
            [updated |-> FALSE, description |-> r.description, err |-> r.err,
             auths |-> auths, st |-> [st EXCEPT !.w = r.w]]
    ELSE
        LET creds == EncodeToString(username \o password) IN
        [updated |-> TRUE, description |-> <<>>, err |-> NoErr,
         auths |-> [auths EXCEPT !.AuthConfigs = MapPut(@, k, AuthEntry(creds, <<>>))],
         st |-> st]

\* SetEditor asking for the file to be written after it stored in the helper that
\* credHelpers names
SetEditorMarksDirty(k, isNamespaced, username, password, auths, st) ==
    IF k \in DOMAIN auths.CredHelpers THEN
        IF isNamespaced THEN
            [updated |-> FALSE, description |-> <<>>, err |-> unsupportedNamespaceErr,
             auths |-> auths, st |-> st]
        ELSE
            LET r == setAuthToCredHelper(auths.CredHelpers[k], k, username, password, st.w) IN
            [updated |-> r.err = NoErr, description |-> r.description, err |-> r.err,
             auths |-> auths, st |-> [st EXCEPT !.w = r.w]]
    ELSE
        LET creds == EncodeToString(username \o << ":" >> \o password) IN
        [updated |-> TRUE, description |-> <<>>, err |-> NoErr,
         auths |-> [auths EXCEPT !.AuthConfigs = MapPut(@, k, AuthEntry(creds, <<>>))],
         st |-> st]

\* SetEditor starting the auths map afresh with the new entry
SetEditorFreshAuths(k, isNamespaced, username, password, auths, st) ==
    IF k \in DOMAIN auths.CredHelpers THEN
        IF isNamespaced THEN
            [updated |-> FALSE, description |-> <<>>, err |-> unsupportedNamespaceErr,
             auths |-> auths, st |-> st]
        ELSE
            LET r == setAuthToCredHelper(auths.CredHelpers[k], k, username, password, st.w) IN
            [updated |-> FALSE, description |-> r.description, err |-> r.err,
             auths |-> auths, st |-> [st EXCEPT !.w = r.w]]
    ELSE
        LET creds == EncodeToString(username \o << ":" >> \o password) IN
        [updated |-> TRUE, description |-> <<>>, err |-> NoErr,
         auths |-> [auths EXCEPT !.AuthConfigs = [x \in {k} |-> AuthEntry(creds, <<>>)]],
         st |-> st]

\* the editor SetCredentials passes to modifyJSON
SetEditor(k, isNamespaced, username, password, auths, st) ==
    IF k \in DOMAIN auths.CredHelpers THEN
        IF isNamespaced THEN
            [updated |-> FALSE, description |-> <<>>, err |-> unsupportedNamespaceErr,
             auths |-> auths, st |-> st]
        ELSE
            LET r == setAuthToCredHelper(auths.CredHelpers[k], k, username, password, st.w) IN
            [updated |-> FALSE, description |-> r.description, err |-> r.err,
             auths |-> auths, st |-> [st EXCEPT !.w = r.w]]
    ELSE
        LET creds == EncodeToString(username \o << ":" >> \o password) IN
        [updated |-> TRUE, description |-> <<>>, err |-> NoErr,
         auths |-> [auths EXCEPT !.AuthConfigs = MapPut(@, k, AuthEntry(creds, <<>>))],
         st |-> st]

RECURSIVE Flatten(_)
Flatten(errs) == IF errs = << >> THEN << >> ELSE Head(errs) \o Flatten(Tail(errs))

\* a multierror used as one error value; nil when nothing was appended
AsError(multiErr) == IF multiErr = << >> THEN NoErr ELSE Wrap("multierror", Flatten(multiErr))

\* removeFromCredHelper taking "credentials not found" for a removal
removeFromCredHelperFoundAlways(helper, k, isNamespaced, st) ==
    IF isNamespaced THEN st
    ELSE
        LET r == deleteAuthFromCredHelper(helper, k, st.w) IN
        IF r.err = NoErr \/ r.err = Err("CredentialsNotFound") THEN
            [st EXCEPT !.w = r.w, !.isLoggedIn = TRUE]
        ELSE
            [st EXCEPT !.w = r.w, !.multiErr = Append(@, Err("removing"))]

\* removeFromCredHelper erasing whatever the key is, namespaced or not
removeFromCredHelperAnyKey(helper, k, isNamespaced, st) ==
    LET r == deleteAuthFromCredHelper(helper, k, st.w) IN
    IF r.err = NoErr THEN
        [st EXCEPT !.w = r.w, !.isLoggedIn = TRUE]
    ELSE IF r.err = Err("CredentialsNotFound") THEN
        [st EXCEPT !.w = r.w]
    ELSE
        [st EXCEPT !.w = r.w, !.multiErr = Append(@, Err("removing"))]

\* the closure removeFromCredHelper(helper)
removeFromCredHelper(helper, k, isNamespaced, st) ==
    IF isNamespaced THEN st
    ELSE
        LET r == deleteAuthFromCredHelper(helper, k, st.w) IN
        IF r.err = NoErr THEN
            [st EXCEPT !.w = r.w, !.isLoggedIn = TRUE]
        ELSE IF r.err = Err("CredentialsNotFound") THEN
            [st EXCEPT !.w = r.w]
        ELSE
            [st EXCEPT !.w = r.w, !.multiErr = Append(@, Err("removing"))]

\* RemoveEditor leaving auths[key] in the file
RemoveEditorKeepsEntry(k, isNamespaced, auths, st) ==
    LET st1 == IF k \in DOMAIN auths.CredHelpers
               THEN removeFromCredHelper(auths.CredHelpers[k], k, isNamespaced, st)
               ELSE st
        has == k \in DOMAIN auths.AuthConfigs
    IN  [updated |-> TRUE, description |-> <<>>, err |-> AsError(st1.multiErr),
         auths |-> auths,
         st |-> IF has THEN [st1 EXCEPT !.isLoggedIn = TRUE] ELSE st1]

\* the editor RemoveAuthentication passes to modifyJSON; it returns the errors
\* collected so far, by every helper, as its own error
RemoveEditor(k, isNamespaced, auths, st) ==
    LET st1 == IF k \in DOMAIN auths.CredHelpers
               THEN removeFromCredHelper(auths.CredHelpers[k], k, isNamespaced, st)
               ELSE st
        has == k \in DOMAIN auths.AuthConfigs
    IN  [updated |-> TRUE, description |-> <<>>, err |-> AsError(st1.multiErr),
         auths |-> IF has THEN [auths EXCEPT !.AuthConfigs = MapDelete(@, k)] ELSE auths,
         st |-> IF has THEN [st1 EXCEPT !.isLoggedIn = TRUE] ELSE st1]

\* "for registry := range ... { err = deleteAuthFromCredHelper(helper, registry) ... }"
\* visiting the registries in the given order and stopping at the first error
RECURSIVE EraseInOrder(_, _, _)
EraseInOrder(order, helperOf, w) ==
    IF order = << >> THEN [err |-> NoErr, w |-> w]
    ELSE
        LET r == deleteAuthFromCredHelper(helperOf[Head(order)], Head(order), w) IN
        IF r.err # NoErr THEN [err |-> r.err, w |-> r.w]
        ELSE EraseInOrder(Tail(order), helperOf, r.w)

\* RemoveAllEditor emptying the file whatever the erases return
RemoveAllEditorIgnoresErrors(order, auths, st) ==
    LET erased == EraseInOrder(order, auths.CredHelpers, st.w) IN
    [updated |-> TRUE, description |-> <<>>, err |-> NoErr,
     auths |-> ConfigFile(EmptyMap, EmptyMap), st |-> [st EXCEPT !.w = erased.w]]

\* RemoveAllEditor leaving the auths map as it is
RemoveAllEditorKeepsAuths(order, auths, st) ==
    LET erased == EraseInOrder(order, auths.CredHelpers, st.w) IN
    IF erased.err # NoErr THEN
        [updated |-> FALSE, description |-> <<>>, err |-> erased.err,
         auths |-> auths, st |-> [st EXCEPT !.w = erased.w]]
    ELSE
        [updated |-> TRUE, description |-> <<>>, err |-> NoErr,
         auths |-> ConfigFile(auths.AuthConfigs, EmptyMap), st |-> [st EXCEPT !.w = erased.w]]

\* the editor RemoveAllAuthentication passes to modifyJSON; order is the order in
\* which the range over auths.CredHelpers visits its keys
RemoveAllEditor(order, auths, st) ==
    LET erased == EraseInOrder(order, auths.CredHelpers, st.w) IN
    IF erased.err # NoErr THEN
        [updated |-> FALSE, description |-> <<>>, err |-> erased.err,
         auths |-> auths, st |-> [st EXCEPT !.w = erased.w]]
    ELSE
        [updated |-> TRUE, description |-> <<>>, err |-> NoErr,
         auths |-> ConfigFile(EmptyMap, EmptyMap), st |-> [st EXCEPT !.w = erased.w]]

\* the closure passed to modifyJSON, as the record of what it captures
SetEditorOf(k, isNamespaced, username, password) ==
    [op |-> "set", key |-> k, isNamespaced |-> isNamespaced,
     username |-> username, password |-> password]

RemoveEditorOf(k, isNamespaced) == [op |-> "remove", key |-> k, isNamespaced |-> isNamespaced]

RemoveAllEditorOf(order) == [op |-> "removeAll", order |-> order]

\* the call editor(&auths) in modifyJSON
RunEditor(editor, auths, st) ==
    CASE editor.op = "set" ->
            SetEditor(editor.key, editor.isNamespaced, editor.username, editor.password, auths, st)
      [] editor.op = "remove" ->
            RemoveEditor(editor.key, editor.isNamespaced, auths, st)
      [] editor.op = "removeAll" ->
            RemoveAllEditor(editor.order, auths, st)

(***************************************************************************)
(* modifyJSON                                                              *)
(***************************************************************************)

\* modifyJSON after the editor returned e: the marshalling of the edited file.  newData
\* is << >> when nothing is to be written, and << d >> for the document d to be written
marshalEdited(path, e) ==
    IF e.err # NoErr THEN
        [description |-> <<>>, err |-> Wrap("updating", e.err), st |-> e.st, newData |-> << >>]
    ELSE
        [description |-> IF e.description = <<>> THEN path.path ELSE e.description,
         err |-> NoErr,
         st |-> e.st,
         newData |-> IF e.updated THEN << MarshalIndent(e.auths) >> ELSE << >>]

\* editJSON without the refusal of a legacy path
editJSONOfLegacy(editor, st) ==
    LET p == getPathToAuth IN
    IF p.err # NoErr THEN
        [description |-> <<>>, err |-> p.err, st |-> st, newData |-> << >>]
    ELSE
        LET path == p.path
            st1 == [st EXCEPT !.w = Traced(@, << "parse", path.path >>)]
            parsed == parse(path, st.w.fs)
        IN
        IF parsed.err # NoErr THEN
            [description |-> <<>>, err |-> Wrap("reading", parsed.err), st |-> st1,
             newData |-> << >>]
        ELSE marshalEdited(path, RunEditor(editor, parsed.auths, st1))

\* modifyJSON up to the marshalling of the edited file
editJSON(editor, st) ==
    LET p == getPathToAuth IN
    IF p.err # NoErr THEN
        [description |-> <<>>, err |-> p.err, st |-> st, newData |-> << >>]
    ELSE IF p.path.legacyFormat THEN
        [description |-> <<>>, err |-> Err("LegacyWrite"), st |-> st, newData |-> << >>]
    ELSE
        LET path == p.path
            st1 == [st EXCEPT !.w = Traced(@, << "parse", path.path >>)]
            parsed == parse(path, st.w.fs)
        IN
        IF parsed.err # NoErr THEN
            [description |-> <<>>, err |-> Wrap("reading", parsed.err), st |-> st1,
             newData |-> << >>]
        ELSE marshalEdited(path, RunEditor(editor, parsed.auths, st1))

\* modifyJSON from the write of the new data on: the new data replaces the file in one step
writeEdited(path, m) ==
    [description |-> m.description,
     err |-> m.err,
     st |-> IF m.newData # << >>
            THEN [m.st EXCEPT !.w.fs = MapPut(@, path, m.newData[1]),
                              !.w.tr = Append(@, << "write", path >>)]
            ELSE m.st]

\* modifyJSON on the first of the auth paths that the lookups read
modifyJSONFirstReadPath(editor, st) ==
    LET path == getAuthFilePaths[1]
        st1 == [st EXCEPT !.w = Traced(@, << "parse", path.path >>)]
        parsed == parse(path, st.w.fs)
    IN
    IF path.legacyFormat THEN
        [description |-> <<>>, err |-> Err("LegacyWrite"), st |-> st]
    ELSE IF parsed.err # NoErr THEN
        [description |-> <<>>, err |-> Wrap("reading", parsed.err), st |-> st1]
    ELSE writeEdited(path.path, marshalEdited(path, RunEditor(editor, parsed.auths, st1)))

\* modifyJSON(sys, editor)
modifyJSON(editor, st) == writeEdited(getPathToAuth.path.path, editJSON(editor, st))

(***************************************************************************)
(* SetCredentials                                                          *)
(***************************************************************************)

\* SetStep handing a namespaced key to an external helper
SetStepAnyKey(helper, k, isNamespaced, username, password, w) ==
    IF helper = AuthenticationFileHelper THEN
        LET m == modifyJSON(SetEditorOf(k, isNamespaced, username, password), [w |-> w])
        IN  [desc |-> m.description, err |-> m.err, w |-> m.st.w]
    ELSE
        LET r == setAuthToCredHelper(helper, k, username, password, w) IN
        [desc |-> r.description, err |-> r.err, w |-> r.w]

\* one iteration of the loop over helpers in SetCredentials
SetStep(helper, k, isNamespaced, username, password, w) ==
    IF helper = AuthenticationFileHelper THEN
        LET m == modifyJSON(SetEditorOf(k, isNamespaced, username, password), [w |-> w])
        IN  [desc |-> m.description, err |-> m.err, w |-> m.st.w]
    ELSE IF isNamespaced THEN
        [desc |-> <<>>, err |-> unsupportedNamespaceErr, w |-> w]
    ELSE
        LET r == setAuthToCredHelper(helper, k, username, password, w) IN
        [desc |-> r.description, err |-> r.err, w |-> r.w]

\* no helper
NoHelper == ""

\* SetLoop going on to the next helper after a success
RECURSIVE SetLoopStoresInAll(_, _, _, _, _, _, _)
SetLoopStoresInAll(i, multiErr, k, isNamespaced, username, password, w) ==
    IF i > Len(helpers) THEN [desc |-> <<>>, err |-> multiErr, by |-> NoHelper, w |-> w]
    ELSE
        LET r == SetStep(helpers[i], k, isNamespaced, username, password, w) IN
        IF r.err # NoErr
        THEN SetLoopStoresInAll(i + 1, Append(multiErr, r.err), k, isNamespaced, username, password, r.w)
        ELSE LET rest == SetLoopStoresInAll(i + 1, << >>, k, isNamespaced, username, password, r.w)
             IN  [desc |-> r.desc, err |-> << >>, by |-> helpers[i], w |-> rest.w]

\* the loop over helpers[i..]: stop at the first success, collect the errors; by is
\* the helper that the debug log names as the one that stored
RECURSIVE SetLoop(_, _, _, _, _, _, _)
SetLoop(i, multiErr, k, isNamespaced, username, password, w) ==
    IF i > Len(helpers) THEN [desc |-> <<>>, err |-> multiErr, by |-> NoHelper, w |-> w]
    ELSE
        LET r == SetStep(helpers[i], k, isNamespaced, username, password, w) IN
        IF r.err # NoErr
        THEN SetLoop(i + 1, Append(multiErr, r.err), k, isNamespaced, username, password, r.w)
        ELSE [desc |-> r.desc, err |-> << >>, by |-> helpers[i], w |-> r.w]

\* SetCredentials(sys, key, username, password).  The result's err is the list of
\* errors returned (a single error is a list of one, nil the empty list).
SetCredentials(k, username, password, w) ==
    LET v == validateKey(k) IN
    IF v.err # NoErr
    THEN [desc |-> <<>>, err |-> << v.err >>, by |-> NoHelper, w |-> w]
    ELSE SetLoop(1, << >>, k, v.isNamespaced, username, password, w)

(***************************************************************************)
(* GetCredentials.  Ranging over a Go map visits the entries in any order, *)
(* so a lookup has a set of possible outcomes.                             *)
(***************************************************************************)

\* findCredentialsInFile going on to the auths entries when the helper named by
\* credHelpers has nothing
findCredentialsInFileFallsThrough(k, registry, path, w) ==
    LET w1 == Traced(w, << "parse", path.path >>)
        parsed == parse(path, w.fs)
        auths == parsed.auths
        keys == IF ~path.legacyFormat THEN authKeysForKey(k) ELSE << registry >>
        found == {i \in 1..Len(keys) : keys[i] \in DOMAIN auths.AuthConfigs}
        normalized == normalizeRegistry(registry)
        matching == {f \in DOMAIN auths.AuthConfigs :
                        normalizeAuthFileKey(f, path.legacyFormat) = normalized}
        Decoded(f) == LET d == decodeDockerAuth(auths.AuthConfigs[f])
                      IN  [creds |-> d.creds, err |-> d.err, w |-> w1]
        delegated == registry \in DOMAIN auths.CredHelpers
        helped == getAuthFromCredHelper(auths.CredHelpers[registry], registry, w1)
    IN
    IF parsed.err # NoErr THEN
        {[creds |-> EmptyCreds, err |-> Wrap("reading", parsed.err), w |-> w1]}
    ELSE IF delegated /\ (helped.err # NoErr \/ helped.creds # EmptyCreds) THEN
        {helped}
    ELSE IF found # {} THEN
        {Decoded(keys[CHOOSE i \in found : \A j \in found : i <= j])}
    ELSE IF matching # {} THEN
        {Decoded(f) : f \in matching}
    ELSE {[creds |-> EmptyCreds, err |-> NoErr, w |-> w1]}

\* findCredentialsInFile without the pass over the normalized keys of the file
findCredentialsInFileExactOnly(k, registry, path, w) ==
    LET w1 == Traced(w, << "parse", path.path >>)
        parsed == parse(path, w.fs)
        auths == parsed.auths
        keys == IF ~path.legacyFormat THEN authKeysForKey(k) ELSE << registry >>
        found == {i \in 1..Len(keys) : keys[i] \in DOMAIN auths.AuthConfigs}
        Decoded(f) == LET d == decodeDockerAuth(auths.AuthConfigs[f])
                      IN  [creds |-> d.creds, err |-> d.err, w |-> w1]
    IN
    IF parsed.err # NoErr THEN
        {[creds |-> EmptyCreds, err |-> Wrap("reading", parsed.err), w |-> w1]}
    ELSE IF registry \in DOMAIN auths.CredHelpers THEN
        {getAuthFromCredHelper(auths.CredHelpers[registry], registry, w1)}
    ELSE IF found # {} THEN
        {Decoded(keys[CHOOSE i \in found : \A j \in found : i <= j])}
    ELSE {[creds |-> EmptyCreds, err |-> NoErr, w |-> w1]}

\* findCredentialsInFile(key, registry, path)
findCredentialsInFile(k, registry, path, w) ==
    LET w1 == Traced(w, << "parse", path.path >>)
        parsed == parse(path, w.fs)
        auths == parsed.auths
        keys == IF ~path.legacyFormat THEN authKeysForKey(k) ELSE << registry >>
        found == {i \in 1..Len(keys) : keys[i] \in DOMAIN auths.AuthConfigs}
        normalized == normalizeRegistry(registry)
        matching == {f \in DOMAIN auths.AuthConfigs :
                        normalizeAuthFileKey(f, path.legacyFormat) = normalized}
        Decoded(f) == LET d == decodeDockerAuth(auths.AuthConfigs[f])
                      IN  [creds |-> d.creds, err |-> d.err, w |-> w1]
    IN
    IF parsed.err # NoErr THEN
        {[creds |-> EmptyCreds, err |-> Wrap("reading", parsed.err), w |-> w1]}
    ELSE IF registry \in DOMAIN auths.CredHelpers THEN
        {getAuthFromCredHelper(auths.CredHelpers[registry], registry, w1)}
    ELSE IF found # {} THEN
        {Decoded(keys[CHOOSE i \in found : \A j \in found : i <= j])}
    ELSE IF matching # {} THEN
        {Decoded(f) : f \in matching}
    ELSE {[creds |-> EmptyCreds, err |-> NoErr, w |-> w1]}

\* getCredentialsFromAuthFiles going on to the next auth path when one fails
RECURSIVE getCredentialsFromAuthFilesPastErrors(_, _, _, _)
getCredentialsFromAuthFilesPastErrors(i, k, registry, w) ==
    LET paths == getAuthFilePaths IN
    IF i > Len(paths) THEN {[creds |-> EmptyCreds, err |-> NoErr, w |-> w]}
    ELSE UNION {
            IF r.err = NoErr /\ r.creds # EmptyCreds THEN {r}
            ELSE getCredentialsFromAuthFilesPastErrors(i + 1, k, registry, r.w)
         : r \in findCredentialsInFile(k, registry, paths[i], w)}

\* getCredentialsFromAuthFiles, from the i-th auth path on
RECURSIVE getCredentialsFromAuthFiles(_, _, _, _)
getCredentialsFromAuthFiles(i, k, registry, w) ==
    LET paths == getAuthFilePaths IN
    IF i > Len(paths) THEN {[creds |-> EmptyCreds, err |-> NoErr, w |-> w]}
    ELSE UNION {
            IF r.err # NoErr THEN {[creds |-> EmptyCreds, err |-> r.err, w |-> r.w]}
            ELSE IF r.creds # EmptyCreds THEN {r}
            ELSE getCredentialsFromAuthFiles(i + 1, k, registry, r.w)
         : r \in findCredentialsInFile(k, registry, paths[i], w)}

\* one iteration of the loop over helpers in getCredentialsWithHomeDir
GetStep(helper, k, registry, w) ==
    IF helper = AuthenticationFileHelper
    THEN getCredentialsFromAuthFiles(1, k, registry, w)
    ELSE {getAuthFromCredHelper(helper, registry, w)}

\* GetLoop giving up at the first helper that returns an error
RECURSIVE GetLoopStopsAtError(_, _, _, _, _)
GetLoopStopsAtError(i, multiErr, k, registry, w) ==
    IF i > Len(helpers) THEN {[creds |-> EmptyCreds, err |-> multiErr, by |-> NoHelper, w |-> w]}
    ELSE UNION {
            IF r.err # NoErr
            THEN {[creds |-> EmptyCreds, err |-> Append(multiErr, r.err), by |-> NoHelper, w |-> r.w]}
            ELSE IF r.creds # EmptyCreds
            THEN {[creds |-> r.creds, err |-> << >>, by |-> helpers[i], w |-> r.w]}
            ELSE GetLoopStopsAtError(i + 1, multiErr, k, registry, r.w)
         : r \in GetStep(helpers[i], k, registry, w)}

\* the loop over helpers[i..]: return the first non-empty record, collect the errors;
\* by is the helper that the debug log names as the one the record was found in
RECURSIVE GetLoop(_, _, _, _, _)
GetLoop(i, multiErr, k, registry, w) ==
    IF i > Len(helpers) THEN {[creds |-> EmptyCreds, err |-> multiErr, by |-> NoHelper, w |-> w]}
    ELSE UNION {
            IF r.err # NoErr THEN GetLoop(i + 1, Append(multiErr, r.err), k, registry, r.w)
            ELSE IF r.creds # EmptyCreds
            THEN {[creds |-> r.creds, err |-> << >>, by |-> helpers[i], w |-> r.w]}
            ELSE GetLoop(i + 1, multiErr, k, registry, r.w)
         : r \in GetStep(helpers[i], k, registry, w)}

\* getCredentialsWithHomeDir returning sys.DockerAuthConfig only when the helpers have nothing
getCredentialsInlineLast(k, dockerAuthConfig, w) ==
    LET v == validateKey(k) IN
    IF v.err # NoErr THEN {[creds |-> EmptyCreds, err |-> << v.err >>, by |-> NoHelper, w |-> w]}
    ELSE {IF dockerAuthConfig # << >> /\ r.creds = EmptyCreds
          THEN [creds |-> dockerAuthConfig[1], err |-> << >>, by |-> NoHelper, w |-> r.w]
          ELSE r
          : r \in GetLoop(1, << >>, k, RegistryOf(k), w)}

\* getCredentialsWithHomeDir(sys, key, homeDir); dockerAuthConfig is sys.DockerAuthConfig,
\* << >> for nil and << c >> for a pointer to c
getCredentialsWithHomeDir(k, dockerAuthConfig, w) ==
    LET v == validateKey(k) IN
    IF v.err # NoErr THEN {[creds |-> EmptyCreds, err |-> << v.err >>, by |-> NoHelper, w |-> w]}
    ELSE IF dockerAuthConfig # << >> THEN
        {[creds |-> dockerAuthConfig[1], err |-> << >>, by |-> NoHelper, w |-> w]}
    ELSE GetLoop(1, << >>, k, RegistryOf(k), w)

(***************************************************************************)
(* RemoveAuthentication                                                    *)
(***************************************************************************)

\* one iteration of the loop over helpers in RemoveAuthentication
RemoveStep(helper, k, isNamespaced, st) ==
    IF helper = AuthenticationFileHelper THEN
        LET m == modifyJSON(RemoveEditorOf(k, isNamespaced), st) IN
        IF m.err # NoErr
        THEN [m.st EXCEPT !.multiErr = Append(@, m.err)]
        ELSE m.st
    ELSE removeFromCredHelper(helper, k, isNamespaced, st)

RECURSIVE RemoveLoop(_, _, _, _)
RemoveLoop(i, k, isNamespaced, st) ==
    IF i > Len(helpers) THEN st
    ELSE RemoveLoop(i + 1, k, isNamespaced, RemoveStep(helpers[i], k, isNamespaced, st))

\* RemoveAuthentication(sys, key)
RemoveAuthentication(k, w) ==
    LET v == validateKey(k) IN
    IF v.err # NoErr THEN [err |-> << v.err >>, w |-> w]
    ELSE
        LET st == RemoveLoop(1, k, v.isNamespaced,
                             [w |-> w, multiErr |-> << >>, isLoggedIn |-> FALSE])
        IN  IF st.multiErr # << >> THEN [err |-> st.multiErr, w |-> st.w]
            ELSE IF ~st.isLoggedIn THEN [err |-> << Err("NotLoggedIn") >>, w |-> st.w]
            ELSE [err |-> << >>, w |-> st.w]

(***************************************************************************)
(* RemoveAllAuthentication                                                 *)
(***************************************************************************)

\* the orders in which "for k := range m" may visit the keys S of a map
RangeOrders(S) ==
    {o \in [1..Cardinality(S) -> S] : \A i, j \in 1..Cardinality(S) : o[i] = o[j] => i = j}

\* the credHelpers of the file modifyJSON will hand to the editor, if it gets that far
PrimaryCredHelpers(w) ==
    LET p == getPathToAuth IN
    IF p.err = NoErr /\ ~p.path.legacyFormat
    THEN parse(p.path, w.fs).auths.CredHelpers
    ELSE EmptyMap

\* one iteration of the loop over helpers in RemoveAllAuthentication: the possible [err, w]
RemoveAllStep(helper, w) ==
    IF helper = AuthenticationFileHelper THEN
        {LET m == modifyJSON(RemoveAllEditorOf(order), [w |-> w])
         IN  [err |-> m.err, w |-> m.st.w]
         : order \in RangeOrders(DOMAIN PrimaryCredHelpers(w))}
    ELSE
        LET l == listAuthsFromCredHelper(helper, w) IN
        IF l.err = Err("ErrNotFound") THEN {[err |-> NoErr, w |-> l.w]}
        ELSE IF l.err # NoErr THEN {[err |-> l.err, w |-> l.w]}
        ELSE {EraseInOrder(order, [registry \in l.creds |-> helper], l.w)
              : order \in RangeOrders(l.creds)}

RECURSIVE RemoveAllLoop(_, _, _)
RemoveAllLoop(i, multiErr, w) ==
    IF i > Len(helpers) THEN {[err |-> multiErr, w |-> w]}
    ELSE UNION {
            RemoveAllLoop(i + 1, IF r.err # NoErr THEN Append(multiErr, r.err) ELSE multiErr, r.w)
         : r \in RemoveAllStep(helpers[i], w)}

\* RemoveAllAuthentication(sys)
RemoveAllAuthentication(w) == RemoveAllLoop(1, << >>, w)

(***************************************************************************)
(* GetAllCredentials                                                       *)
(***************************************************************************)

\* listedKey without the re-exposure of index.docker.io as docker.io
listedKeyNormalized(key, legacyFormat) == normalizeAuthFileKey(key, legacyFormat)

\* the key GetAllCredentials lists for the auths key of a file
listedKey(key, legacyFormat) ==
    LET normalized == normalizeAuthFileKey(key, legacyFormat) IN
    IF normalized = normalizeRegistry(DockerIO) THEN DockerIO ELSE normalized

\* the walk over the auth file paths, from the i-th on: the keys listed so far, or the error
RECURSIVE listAuthFiles(_, _, _)
listAuthFiles(i, keys, w) ==
    IF i > Len(getAuthFilePaths) THEN [keys |-> keys, err |-> NoErr, w |-> w]
    ELSE
        LET path == getAuthFilePaths[i]
            parsed == parse(path, w.fs)
            w1 == Traced(w, << "parse", path.path >>)
        IN
        IF parsed.err # NoErr THEN
            [keys |-> {}, err |-> Wrap("reading", parsed.err), w |-> w1]
        ELSE listAuthFiles(i + 1,
                           keys \cup DOMAIN parsed.auths.CredHelpers
                                \cup {listedKey(k, path.legacyFormat)
                                      : k \in DOMAIN parsed.auths.AuthConfigs},
                           w1)

\* one iteration of the loop over helpers that lists the keys of every backend
listStep(helper, allKeys, w) ==
    IF helper = AuthenticationFileHelper THEN listAuthFiles(1, allKeys, w)
    ELSE
        LET l == listAuthsFromCredHelper(helper, w) IN
        IF l.err = Err("ErrNotFound") THEN [keys |-> allKeys, err |-> NoErr, w |-> l.w]
        ELSE IF l.err # NoErr THEN [keys |-> {}, err |-> l.err, w |-> l.w]
        ELSE [keys |-> allKeys \cup l.creds, err |-> NoErr, w |-> l.w]

\* the loop over helpers[i..]: the first error ends the call
RECURSIVE listKeys(_, _, _)
listKeys(i, allKeys, w) ==
    IF i > Len(helpers) THEN [keys |-> allKeys, err |-> NoErr, w |-> w]
    ELSE
        LET r == listStep(helpers[i], allKeys, w) IN
        IF r.err # NoErr THEN r ELSE listKeys(i + 1, r.keys, r.w)

\* the loop "for key := range allKeys" visiting the keys in the given order, from the
\* i-th on: GetCredentials of each, the first error ends the call
RECURSIVE getListed(_, _, _, _, _)
getListed(order, i, authConfigs, dockerAuthConfig, w) ==
    IF i > Len(order) THEN {[authConfigs |-> authConfigs, err |-> << >>, w |-> w]}
    ELSE UNION {
            IF r.err # << >> THEN {[authConfigs |-> EmptyMap, err |-> r.err, w |-> r.w]}
            ELSE getListed(order, i + 1,
                           IF r.creds # EmptyCreds
                           THEN MapPut(authConfigs, order[i], r.creds)
                           ELSE authConfigs,
                           dockerAuthConfig, r.w)
         : r \in getCredentialsWithHomeDir(order[i], dockerAuthConfig, w)}

\* GetAllCredentials once the keys are listed
getAllListed(l, dockerAuthConfig) ==
    IF l.err # NoErr THEN
        {[allKeys |-> {}, authConfigs |-> EmptyMap, err |-> << l.err >>, w |-> l.w]}
    ELSE UNION {
            {[allKeys |-> l.keys, authConfigs |-> r.authConfigs, err |-> r.err, w |-> r.w]
             : r \in getListed(order, 1, EmptyMap, dockerAuthConfig, l.w)}
         : order \in RangeOrders(l.keys)}

\* GetAllCredentials(sys): the keys listed (allKeys), the result map, the list of errors
GetAllCredentials(dockerAuthConfig, w) == getAllListed(listKeys(1, {}, w), dockerAuthConfig)

(***************************************************************************)
(* The inputs and the initial states                                       *)
(***************************************************************************)

\* bounds of the model
MaxCalls == 3
MaxChain == 2

ExternalHelpers == {"h1", "h2"}

\* the helper chains: up to MaxChain distinct helper references
Chains ==
    UNION {{c \in [1..n -> ExternalHelpers \cup {AuthenticationFileHelper}] :
                \A i, j \in 1..n : c[i] = c[j] => i = j}
           : n \in 1..MaxChain}

\* keys: a registry, a namespace, a repository, a registry with a port and a path
KeyQ    == << "q" >>
KeyQT   == << "q", "/", "t" >>
KeyQTI  == << "q", "/", "t", "/", "i" >>
KeyPort == << "h", ":", "5", "/", "f" >>
\* keys that validateKey refuses
KeyHttp   == HttpPrefix \o << "q" >>
KeyHttps  == HttpsPrefix \o << "q" >>
KeyDigest == << "q", "@", "s" >>
KeyTag    == << "q", "/", "t", ":", "1" >>

ValidKeys   == {KeyQ, KeyQT, KeyQTI, KeyPort}
InvalidKeys == {KeyHttp, KeyHttps, KeyDigest, KeyTag}

\* logins (username, password) a caller may pass
Login(u, p) == [username |-> u, password |-> p]
PlainLogin  == Login(<< "u" >>, << "p" >>)
Logins ==
    { PlainLogin,
      Login(TokenUsername, << "s" >>),
      Login(<< "u", ":", "v" >>, << "p" >>),
      Login(<< "u" >>, << NUL, "p", NUL >>),
      Login(<< "u" >>, << "p", ":", "p" >>),
      Login(<< >>, << >>) }

\* a credential that is in a backend before the caller acts
OtherUser   == << "o" >>
OtherSecret == << "k" >>
OtherEntry  == AuthEntry(EncodeToString(OtherUser \o << ":" >> \o OtherSecret), << >>)
OtherStored == [Username |-> OtherUser, Secret |-> OtherSecret]

\* sys.DockerAuthConfig of a call that carries an inline credential
InlineCreds == [Username |-> << "n" >>, Password |-> << "e" >>, IdentityToken |-> << >>]

One(k, v) == [x \in {k} |-> v]

InSeq(x, seq) == \E i \in 1..Len(seq) : seq[i] = x

\* documents the primary auth file may hold before the caller acts (<< >>: no file)
PrimaryDocs(k) ==
    LET reg == RegistryOf(k) IN
    { << >>,
      << ModernDoc(<< >>) >>,
      << ModernDoc([f \in {"auths"} |-> One(k, OtherEntry)]) >>,
      << ModernDoc([f \in {"auths"} |-> One(reg, OtherEntry)]) >>,
      << ModernDoc([f \in {"auths", "credHelpers"} |->
                        IF f = "auths" THEN EmptyMap ELSE One(reg, "h2")]) >>,
      << ModernDoc([f \in {"auths", "credHelpers"} |->
                        IF f = "auths" THEN One(k, OtherEntry) ELSE One(k, "h2")]) >>,
      << MalformedDoc >> }

\* an entry per scope of a key, each with a secret of its own: the registry's is OtherEntry
ScopeSecret(c) == << "k", "s", "v" >>[Cardinality({i \in 1..Len(c) : c[i] = "/"}) + 1]
ScopeEntry(c) == AuthEntry(EncodeToString(OtherUser \o << ":" >> \o << ScopeSecret(c) >>), << >>)

\* documents with an entry for every scope of k, and for every scope but k itself
ScopedDocs(k) ==
    LET scopes == {authKeysForKey(k)[i] : i \in 1..Len(authKeysForKey(k))} IN
    { << ModernDoc([f \in {"auths"} |-> [c \in scopes |-> ScopeEntry(c)]]) >>,
      << ModernDoc([f \in {"auths"} |-> [c \in scopes \ {k} |-> ScopeEntry(c)]]) >> }

\* contents of the helper programs and their modes
HelperConfigs(k) ==
    LET reg == RegistryOf(k)
        none == [h \in ExternalHelpers |-> EmptyMap]
        ok == [h \in ExternalHelpers |-> "ok"]
    IN  { [hs |-> none, hmode |-> ok],
          [hs |-> [none EXCEPT !["h1"] = One(reg, OtherStored)], hmode |-> ok],
          [hs |-> [none EXCEPT !["h2"] = One(reg, OtherStored)], hmode |-> ok],
          [hs |-> none, hmode |-> [ok EXCEPT !["h1"] = "error"]],
          [hs |-> none, hmode |-> [ok EXCEPT !["h2"] = "error"]],
          [hs |-> [none EXCEPT !["h1"] = One(reg, OtherStored)],
           hmode |-> [ok EXCEPT !["h2"] = "missing"]] }

NoPath == << >>
SysDefault ==
    [AuthFilePath |-> NoPath, LegacyFormatAuthFilePath |-> NoPath,
     RootForImplicitAbsolutePaths |-> NoPath]
SysChoices ==
    { SysDefault,
      [SysDefault EXCEPT !.AuthFilePath = << "tmp", "auth.json" >>],
      [SysDefault EXCEPT !.LegacyFormatAuthFilePath = << "tmp", "dockercfg" >>],
      [SysDefault EXCEPT !.RootForImplicitAbsolutePaths = << "root" >>] }

EnvDefault ==
    [goOS |-> "linux", XDG_RUNTIME_DIR |-> NoPath, runtimeDirExists |-> FALSE,
     XDG_CONFIG_HOME |-> NoPath, DOCKER_CONFIG |-> NoPath]
EnvChoices ==
    { EnvDefault,
      [EnvDefault EXCEPT !.goOS = "darwin"],
      [EnvDefault EXCEPT !.XDG_RUNTIME_DIR = << "run", "user" >>, !.runtimeDirExists = TRUE],
      [EnvDefault EXCEPT !.XDG_RUNTIME_DIR = << "run", "user" >>],
      [EnvDefault EXCEPT !.XDG_CONFIG_HOME = << "xdg" >>, !.DOCKER_CONFIG = << "docker" >>] }

\* the files: doc at the primary path (when there is one), the legacy document at
\* the last path of the list when that is another one
LegacyUrlKey(reg) == HttpsPrefix \o reg \o << "/", "v", "1", "/" >>

FilesWith(primary, withLegacy, reg) ==
    LET paths == getAuthFilePaths
        p == getPathToAuth
        last == paths[Len(paths)]
        first == IF p.err = NoErr /\ primary # << >>
                 THEN One(p.path.path,
                          IF p.path.legacyFormat
                          THEN LegacyDoc(One(reg, OtherEntry))
                          ELSE primary[1])
                 ELSE EmptyMap
    IN  IF withLegacy /\ Len(paths) > 1
        THEN MapPut(first, last.path, LegacyDoc(One(LegacyUrlKey(reg), OtherEntry)))
        ELSE first

\* no modifyJSON call is under way
NoTxn == [pc |-> "idle"]

InitWith(k, login, chain, sysv, envv, primary, withLegacy, hc) ==
    /\ args = [key |-> k, username |-> login.username, password |-> login.password]
    /\ helpers = chain
    /\ sys = sysv
    /\ env = envv
    /\ fs = FilesWith(primary, withLegacy, RegistryOf(k))
    /\ hs = hc.hs
    /\ hmode = hc.hmode
    /\ hist = << >>
    /\ txn = NoTxn

\* the chains of one or two helpers
ShortChains == {c \in Chains : Len(c) <= 2}

\* every login, on backends that are empty or hold a credential in the helper h2
InitLogins ==
    \E k \in {KeyQ, KeyQT}, login \in Logins, chain \in ShortChains :
      \E held \in {EmptyMap, One(RegistryOf(k), OtherStored)} :
        InitWith(k, login, chain, SysDefault, EnvDefault, << >>, FALSE,
                 [hs |-> [h \in ExternalHelpers |-> IF h = "h2" THEN held ELSE EmptyMap],
                  hmode |-> [h \in ExternalHelpers |-> "ok"]])

\* every backend content, with the plain login
InitBackends ==
    \E k \in {KeyQ, KeyQT}, chain \in Chains :
      \E primary \in PrimaryDocs(k), hc \in HelperConfigs(k) :
        InitWith(k, PlainLogin, chain, SysDefault, EnvDefault, primary, FALSE, hc)

\* the longer keys, on every content of the auth file and with entries for their scopes
InitKeys ==
    \E k \in ValidKeys \ {KeyQ, KeyQT}, chain \in Chains :
      \E primary \in PrimaryDocs(k) \cup ScopedDocs(k) :
        InitWith(k, PlainLogin, chain, SysDefault, EnvDefault, primary, FALSE,
                 [hs |-> [h \in ExternalHelpers |-> EmptyMap],
                  hmode |-> [h \in ExternalHelpers |-> "ok"]])

\* every context and environment
InitPaths ==
    \E k \in {KeyQ, KeyQT}, sysv \in SysChoices, envv \in EnvChoices :
      \E chain \in {c \in ShortChains : c[1] = AuthenticationFileHelper /\ (\A i \in 1..Len(c) : c[i] # "h2")},
         primary \in {<< >>, << ModernDoc([f \in {"auths"} |-> One(k, OtherEntry)]) >>},
         withLegacy \in BOOLEAN :
        InitWith(k, PlainLogin, chain, sysv, envv, primary, withLegacy,
                 [hs |-> [h \in ExternalHelpers |-> EmptyMap],
                  hmode |-> [h \in ExternalHelpers |-> "ok"]])

\* the keys validateKey refuses
InitInvalid ==
    \E k \in InvalidKeys, chain \in ShortChains :
      \E primary \in {<< >>, << ModernDoc([f \in {"auths"} |-> One(k, OtherEntry)]) >>} :
        InitWith(k, PlainLogin, chain, SysDefault, EnvDefault, primary, FALSE,
                 [hs |-> [h \in ExternalHelpers |-> One(k, OtherStored)],
                  hmode |-> [h \in ExternalHelpers |-> "ok"]])

\* a primary auth file as other programs write it: an entry of another registry with
\* an "email", a credHelpers entry of one of its repositories and a "credsStore"
EmailEntry == [Auth |-> OtherEntry.Auth, IdentityToken |-> << >>, email |-> << "m" >>]
ForeignDoc(k) ==
    ModernDoc([f \in {"auths", "credHelpers", "credsStore"} |->
                  IF f = "auths" THEN One(RegistryOf(KeyPort), EmailEntry)
                  ELSE IF f = "credHelpers" THEN One(KeyPort, "h2")
                  ELSE << "d" >>])

InitForeign ==
    \E k \in {KeyQ, KeyQT}, chain \in ShortChains :
      \E h1mode \in {"ok", "error"} :
        InitWith(k, PlainLogin, chain, SysDefault, EnvDefault, << ForeignDoc(k) >>, FALSE,
                 [hs |-> [h \in ExternalHelpers |-> EmptyMap],
                  hmode |-> [h \in ExternalHelpers |-> IF h = "h1" THEN h1mode ELSE "ok"]])

Init == InitBackends \/ InitKeys \/ InitPaths \/ InitLogins \/ InitInvalid \/ InitForeign

(***************************************************************************)
(* The API calls                                                           *)
(***************************************************************************)

\* the record of a completed call: what was asked, what it returned (err is the list
\* of errors, empty on success), the helper its debug log names, the trace of what it did
Call(op, inline, err, creds, desc, by, tr) ==
    [op |-> op, inline |-> inline, err |-> err, creds |-> creds, desc |-> desc,
     by |-> by, tr |-> tr]

Now == World(fs, hs, << >>)

Set ==
    /\ Len(hist) < MaxCalls
    /\ LET r == SetCredentials(args.key, args.username, args.password, Now) IN
        /\ fs' = r.w.fs
        /\ hs' = r.w.hs
        /\ hist' = Append(hist, Call("set", << >>, r.err, EmptyCreds, r.desc, r.by, r.w.tr))
    /\ UNCHANGED << sys, env, helpers, hmode, args, txn >>

\* sys.DockerAuthConfig of a call: a caller passes an inline credential in its first call
\* only (such a call looks at no backend)
InlineChoices == IF hist = << >> THEN {<< >>, << InlineCreds >>} ELSE {<< >>}

Get ==
    /\ Len(hist) < MaxCalls
    /\ \E inline \in InlineChoices :
         \E r \in getCredentialsWithHomeDir(args.key, inline, Now) :
            hist' = Append(hist, Call("get", inline, r.err, r.creds, << >>, r.by, r.w.tr))
    /\ UNCHANGED << sys, env, helpers, hmode, fs, hs, args, txn >>

Remove ==
    /\ Len(hist) < MaxCalls
    /\ LET r == RemoveAuthentication(args.key, Now) IN
        /\ fs' = r.w.fs
        /\ hs' = r.w.hs
        /\ hist' = Append(hist, Call("remove", << >>, r.err, EmptyCreds, << >>, NoHelper, r.w.tr))
    /\ UNCHANGED << sys, env, helpers, hmode, args, txn >>

RemoveAll ==
    /\ Len(hist) < MaxCalls
    /\ \E r \in RemoveAllAuthentication(Now) :
        /\ fs' = r.w.fs
        /\ hs' = r.w.hs
        /\ hist' = Append(hist, Call("removeAll", << >>, r.err, EmptyCreds, << >>, NoHelper, r.w.tr))
    /\ UNCHANGED << sys, env, helpers, hmode, args, txn >>

Next == Set \/ Get \/ Remove \/ RemoveAll

Spec == Init /\ [][Next]_vars

(***************************************************************************)
(* GetAllCredentials, and lookups in several auth files and under the      *)
(* docker.io names: a second family of initial states                      *)
(***************************************************************************)

\* keys of the docker.io registry
KeyDocker == DockerIO
KeyAlpine == DockerIO \o << "/", "l", "/", "a" >>

\* "https://index.docker.io/v1/"
DockerUrlKey == LegacyUrlKey(IndexDockerIO)

\* a second credential that is in a backend before the caller acts
SecondEntry == AuthEntry(EncodeToString(OtherUser \o << ":", "s" >>), << >>)

AuthsDoc(auths) == ModernDoc([f \in {"auths"} |-> auths])

\* documents that name the docker.io registry in one of its forms
DockerDocs ==
    { << >>,
      << AuthsDoc(One(DockerIO, OtherEntry)) >>,
      << AuthsDoc(One(IndexDockerIO, OtherEntry)) >>,
      << AuthsDoc(One(Registry1DockerIO, OtherEntry)) >>,
      << AuthsDoc(One(DockerUrlKey, OtherEntry)) >>,
      << AuthsDoc(One(HttpPrefix \o KeyAlpine, OtherEntry)) >>,
      << AuthsDoc(MapPut(One(IndexDockerIO, OtherEntry), LegacyUrlKey(Registry1DockerIO), SecondEntry)) >>,
      << AuthsDoc(MapPut(One(KeyQ, OtherEntry), KeyQT, SecondEntry)) >>,
      << ModernDoc([f \in {"credHelpers"} |-> One(IndexDockerIO, "h2")]) >>,
      << ModernDoc([f \in {"credHelpers"} |-> One(DockerIO, "h2")]) >> }

\* the helper programs next to those documents: h2 holds index.docker.io
DockerHelperConfigs ==
    LET held(m) == [h \in ExternalHelpers |-> IF h = "h2" THEN One(IndexDockerIO, OtherStored) ELSE m]
        ok == [h \in ExternalHelpers |-> "ok"]
    IN  { [hs |-> held(EmptyMap), hmode |-> ok],
          [hs |-> held(One(Registry1DockerIO, OtherStored)), hmode |-> ok],
          [hs |-> held(One(DockerIO, OtherStored)), hmode |-> ok],
          [hs |-> held(EmptyMap), hmode |-> [ok EXCEPT !["h1"] = "missing"]],
          [hs |-> held(EmptyMap), hmode |-> [ok EXCEPT !["h1"] = "error"]] }

\* the chains with the file helper, alone or next to the helper h1
FileChains ==
    {c \in ShortChains : InSeq(AuthenticationFileHelper, c) /\ ~InSeq("h2", c)}

\* the docker.io registry in the files and helper programs
InitDocker ==
    \E k \in {KeyDocker, KeyAlpine}, chain \in FileChains :
      \E primary \in DockerDocs, withLegacy \in BOOLEAN, hc \in DockerHelperConfigs :
        /\ args = [key |-> k, username |-> PlainLogin.username, password |-> PlainLogin.password]
        /\ helpers = chain
        /\ sys = SysDefault
        /\ env = EnvDefault
        /\ fs = FilesWith(primary, withLegacy, IndexDockerIO)
        /\ hs = hc.hs
        /\ hmode = hc.hmode
        /\ hist = << >>
        /\ txn = NoTxn

\* an entry of its own for the i-th auth path
PathSecret(i) == << "k", "s", "v", "e" >>[i]
PathEntry(i) == AuthEntry(EncodeToString(OtherUser \o << ":", PathSecret(i) >>), << >>)

\* what the file at the i-th auth path may be for a key k (<< >>: no file): a file with
\* an entry for k, a file that is no JSON, a file that names the helper h2 for the registry
PathDocs(i, k, legacyFormat) ==
    IF legacyFormat
    THEN { << >>, << LegacyDoc(One(LegacyUrlKey(RegistryOf(k)), PathEntry(i))) >> }
    ELSE { << >>, << AuthsDoc(One(k, PathEntry(i))) >>, << MalformedDoc >> }
         \cup IF i = 1
              THEN {<< ModernDoc([f \in {"credHelpers"} |-> One(RegistryOf(k), "h2")]) >>}
              ELSE {}

\* the files with these documents at the auth paths
FilesAt(docs) ==
    LET paths == getAuthFilePaths
        used == {i \in 1..Len(paths) : docs[i] # << >>}
    IN  [p \in {paths[i].path : i \in used} |-> docs[CHOOSE i \in used : paths[i].path = p][1]]

\* every combination of files at the four default auth paths
InitFiles ==
    \E k \in {KeyQ, KeyQT}, chain \in {<< AuthenticationFileHelper >>} :
      \E d1 \in PathDocs(1, k, FALSE), d2 \in PathDocs(2, k, FALSE),
         d3 \in PathDocs(3, k, FALSE), d4 \in PathDocs(4, k, TRUE) :
        /\ args = [key |-> k, username |-> PlainLogin.username, password |-> PlainLogin.password]
        /\ helpers = chain
        /\ sys = SysDefault
        /\ env = EnvDefault
        /\ fs = FilesAt(<< d1, d2, d3, d4 >>)
        /\ hs = [h \in ExternalHelpers |-> EmptyMap]
        /\ hmode = [h \in ExternalHelpers |-> IF h = "h2" THEN "error" ELSE "ok"]
        /\ hist = << >>
        /\ txn = NoTxn

\* the lookups start from these states and from every initial state of the calls above
InitAll == InitDocker \/ InitFiles \/ Init

\* the read calls of a behaviour
MaxReads == 2

\* GetAllCredentials; the record of the call holds the keys it listed and its result
\* map, next to the fields of every call
GetAll ==
    /\ Len(hist) < MaxReads
    /\ \E r \in GetAllCredentials(<< >>, Now) :
         hist' = Append(hist,
                        Call("getAll", << >>, r.err, EmptyCreds, << >>, NoHelper, r.w.tr)
                            @@ [allKeys |-> r.allKeys, authConfigs |-> r.authConfigs])
    /\ UNCHANGED << sys, env, helpers, hmode, fs, hs, args, txn >>

\* GetCredentials as one of the read calls
Lookup == Len(hist) < MaxReads /\ Get

NextAll == Lookup \/ GetAll

SpecAll == InitAll /\ [][NextAll]_vars

(***************************************************************************)
(* modifyJSON step by step, with a reader of the auth file and a crash.    *)
(* ioutils.AtomicWriteFile writes the new data to a temporary file in the  *)
(* directory of the target, in WriteCalls writes, and renames it over the  *)
(* target.  txn = [pc, pre, newData, written, seen]: where the call is,    *)
(* the target before the call (<< >>: no file), the document to write      *)
(* (<< >>: none), the writes done, what the reader saw last.               *)
(***************************************************************************)

\* the writes it takes to put a document on disk
WriteCalls == 2

\* a file that holds the first n of the WriteCalls parts of a document: no JSON
Truncated(doc, n) == [fmt |-> "malformed", of |-> doc, written |-> n]

\* the temporary file AtomicWriteFile creates next to the target
TempFileOf(path) == Append(path, ".tmp")

\* the write of modifyJSON goes to the target in place
writeInPlace(path) == path

\* the file the write of modifyJSON puts the new data in, before any rename:
\* modifyJSON writes with ioutils.AtomicWriteFile
writeDest(path) == TempFileOf(path)

Target == getPathToAuth.path.path

Content(files, path) == IF path \in DOMAIN files THEN << files[path] >> ELSE << >>

\* the editors a transaction may run
Editors ==
    {SetEditorOf(args.key, validateKey(args.key).isNamespaced, args.username, args.password),
     RemoveEditorOf(args.key, validateKey(args.key).isNamespaced)}
        \cup {RemoveAllEditorOf(order) : order \in RangeOrders(DOMAIN PrimaryCredHelpers(Now))}

\* modifyJSON from its start to the marshalling of the edited file
TxnStart ==
    /\ txn.pc = "idle"
    /\ validateKey(args.key).err = NoErr
    /\ \E editor \in Editors :
         LET m == editJSON(editor, [w |-> Now, multiErr |-> << >>, isLoggedIn |-> FALSE]) IN
         /\ hs' = m.st.w.hs
         /\ txn' = [pc |-> IF m.newData = << >> THEN "done" ELSE "marshalled",
                    pre |-> IF getPathToAuth.err = NoErr THEN Content(fs, Target) ELSE << >>,
                    newData |-> m.newData,
                    written |-> 0,
                    seen |-> << >>]
    /\ UNCHANGED << sys, env, helpers, hmode, fs, args, hist >>

\* the destination of the write is created, or truncated, and is empty
TxnOpen ==
    /\ txn.pc = "marshalled"
    /\ fs' = MapPut(fs, writeDest(Target), Truncated(txn.newData[1], 0))
    /\ txn' = [txn EXCEPT !.pc = "writing"]
    /\ UNCHANGED << sys, env, helpers, hmode, hs, args, hist >>

\* one more part of the new data is written
TxnWrite ==
    /\ txn.pc = "writing"
    /\ txn.written < WriteCalls
    /\ fs' = MapPut(fs, writeDest(Target),
                    IF txn.written + 1 = WriteCalls
                    THEN txn.newData[1]
                    ELSE Truncated(txn.newData[1], txn.written + 1))
    /\ txn' = [txn EXCEPT !.written = @ + 1]
    /\ UNCHANGED << sys, env, helpers, hmode, hs, args, hist >>

\* the file written is renamed over the target, and modifyJSON returns
TxnRename ==
    /\ txn.pc = "writing"
    /\ txn.written = WriteCalls
    /\ fs' = MapPut(MapDelete(fs, writeDest(Target)), Target, fs[writeDest(Target)])
    /\ txn' = [txn EXCEPT !.pc = "done"]
    /\ UNCHANGED << sys, env, helpers, hmode, hs, args, hist >>

\* the process is interrupted between the marshalling and the rename
TxnCrash ==
    /\ txn.pc \in {"marshalled", "writing"}
    /\ txn' = [txn EXCEPT !.pc = "crashed"]
    /\ UNCHANGED << sys, env, helpers, hmode, fs, hs, args, hist >>

\* another process parses the auth file
TxnRead ==
    /\ txn.pc # "idle"
    /\ getPathToAuth.err = NoErr
    /\ txn' = [txn EXCEPT !.seen = << parse(getPathToAuth.path, fs) >>]
    /\ UNCHANGED << sys, env, helpers, hmode, fs, hs, args, hist >>

NextTxn == TxnStart \/ TxnOpen \/ TxnWrite \/ TxnRename \/ TxnCrash \/ TxnRead

SpecTxn == Init /\ [][NextTxn]_vars

(***************************************************************************)
(* Two concurrent modifyJSON calls on the same auth file.  Each call       *)
(* parses the file, runs its editor and marshals the result in its own     *)
(* memory; ioutils.AtomicWriteFile then writes the new data to a temporary *)
(* file of its own in the directory of the target and renames it over the  *)
(* target.  Here txn = [pc, orig, of, renamed]: orig is the target before  *)
(* the calls, of[w] = [pc, editor, pre, hsPre, newData, written] the call  *)
(* of writer w, renamed the writers in the order of their renames.         *)
(***************************************************************************)

\* the two callers
Writers == {"a", "b"}

\* the temporary file AtomicWriteFile creates for a caller
TempFileFor(path, w) == Append(path, ".tmp-" \o w)

\* the write of a caller goes to the target in place
writerDestInPlace(path, w) == path

\* the file the write of a caller puts the new data in, before its rename
writerDest(path, w) == TempFileFor(path, w)

\* a second key and login, for a set that is not the one of the other caller
SecondLogin == Login(OtherUser, OtherSecret)

\* the editors a caller may run
WriterEditors ==
    Editors \cup {SetEditorOf(k, validateKey(k).isNamespaced, SecondLogin.username, SecondLogin.password)
                  : k \in {KeyQ, KeyQT}}

\* the calls have not started
TwoIdle == [w \in Writers |-> [pc |-> "idle"]]

\* the file helper alone, every content of the primary auth file
InitTwo ==
    \E k \in {KeyQ, KeyQT} :
      \E primary \in PrimaryDocs(k), hc \in HelperConfigs(k) :
        /\ args = [key |-> k, username |-> PlainLogin.username, password |-> PlainLogin.password]
        /\ helpers = << AuthenticationFileHelper >>
        /\ sys = SysDefault
        /\ env = EnvDefault
        /\ fs = FilesWith(primary, FALSE, RegistryOf(k))
        /\ hs = hc.hs
        /\ hmode = hc.hmode
        /\ hist = << >>
        /\ txn = [pc |-> "two", orig |-> primary, of |-> TwoIdle, renamed |-> << >>]

\* modifyJSON of a caller from its start to the marshalling of the edited file
TwoStart ==
    \E w \in Writers, editor \in WriterEditors :
        LET m == editJSON(editor, [w |-> Now, multiErr |-> << >>, isLoggedIn |-> FALSE]) IN
        /\ txn.of[w].pc = "idle"
        /\ hs' = m.st.w.hs
        /\ txn' = [txn EXCEPT !.of[w] =
                      [pc |-> IF m.newData = << >> THEN "done" ELSE "marshalled",
                       editor |-> editor,
                       pre |-> Content(fs, Target),
                       hsPre |-> hs,
                       newData |-> m.newData,
                       written |-> 0]]
        /\ UNCHANGED << sys, env, helpers, hmode, fs, args, hist >>

\* the destination of a caller's write is created, and is empty
TwoOpen ==
    \E w \in Writers :
        /\ txn.of[w].pc = "marshalled"
        /\ fs' = MapPut(fs, writerDest(Target, w), Truncated(txn.of[w].newData[1], 0))
        /\ txn' = [txn EXCEPT !.of[w].pc = "writing"]
        /\ UNCHANGED << sys, env, helpers, hmode, hs, args, hist >>

\* one more part of a caller's new data is written
TwoWrite ==
    \E w \in Writers :
        /\ txn.of[w].pc = "writing"
        /\ txn.of[w].written < WriteCalls
        /\ fs' = MapPut(fs, writerDest(Target, w),
                        IF txn.of[w].written + 1 = WriteCalls
                        THEN txn.of[w].newData[1]
                        ELSE Truncated(txn.of[w].newData[1], txn.of[w].written + 1))
        /\ txn' = [txn EXCEPT !.of[w].written = @ + 1]
        /\ UNCHANGED << sys, env, helpers, hmode, hs, args, hist >>

\* the file a caller wrote is renamed over the target, and its modifyJSON returns
TwoRename ==
    \E w \in Writers :
        /\ txn.of[w].pc = "writing"
        /\ txn.of[w].written = WriteCalls
        /\ fs' = MapPut(MapDelete(fs, writerDest(Target, w)), Target, fs[writerDest(Target, w)])
        /\ txn' = [txn EXCEPT !.of[w].pc = "done", !.renamed = Append(@, w)]
        /\ UNCHANGED << sys, env, helpers, hmode, hs, args, hist >>

NextTwo == TwoStart \/ TwoOpen \/ TwoWrite \/ TwoRename

SpecTwo == InitTwo /\ [][NextTwo]_vars

(***************************************************************************)
(* Properties.  A property about a sequence of calls is stated of the last *)
(* calls of hist: every prefix of a behaviour is a reachable state.        *)
(***************************************************************************)

N    == Len(hist)
Last == hist[N]
Prev == hist[N - 1]

Key == args.key

\* the record {Username: u, Password: p, IdentityToken: ""} of the caller's login
LoginRecord ==
    [Username |-> args.username, Password |-> args.password, IdentityToken |-> << >>]

Succeeded(call) == call.err = << >>

IndexOf(helper) == CHOOSE i \in 1..Len(helpers) : helpers[i] = helper

\* a successful set directly followed by a get of the same key without inline credential
SetThenGet ==
    /\ N >= 2
    /\ Prev.op = "set" /\ Succeeded(Prev)
    /\ Last.op = "get" /\ Last.inline = << >>

\* C1 (as claimed): if SetCredentials(K, u, p) succeeds, the GetCredentials(K) that
\* follows returns exactly {u, p, ""}, whatever the chain, the files and the helpers.
C1_RoundTripAlways ==
    SetThenGet => Succeeded(Last) /\ Last.creds = LoginRecord

\* the set wrote auths[K] of the primary auth file (and not an embedded helper)
StoredInAuths(call) ==
    /\ call.by = AuthenticationFileHelper
    /\ call.desc = getPathToAuth.path.path

\* the login comes back unchanged from the backend that stored it
LoginSurvives(call) ==
    /\ ~(args.username = << >> /\ args.password = << >>)
    /\ IF StoredInAuths(call)
       THEN /\ ~ContainsRune(args.username, ":")
            /\ args.password # << >> =>
                 /\ Head(args.password) # NUL
                 /\ args.password[Len(args.password)] # NUL
       ELSE args.username # TokenUsername

\* a lookup of K in this helper finds nothing: it fails or yields the empty record
YieldsNothing(helper) ==
    \A r \in GetStep(helper, Key, RegistryOf(Key), Now) : r.err # NoErr \/ r.creds = EmptyCreds

\* a lookup of K gets as far as the backend that stored it
LookupReaches(call) ==
    /\ \A j \in 1..(IndexOf(call.by) - 1) : YieldsNothing(helpers[j])
    /\ StoredInAuths(call) => RegistryOf(Key) \notin DOMAIN PrimaryCredHelpers(Now)

\* C1 (amended): if SetCredentials(K, u, p) succeeds, the GetCredentials(K) that follows
\* returns exactly {u, p, ""} provided the login survives the encoding of the backend
\* that stored it and no backend consulted before that one answers for K.
C1_RoundTrip ==
    SetThenGet /\ LoginSurvives(Prev) /\ LookupReaches(Prev)
        => Succeeded(Last) /\ Last.creds = LoginRecord

\* C1 witness: a namespaced key stored in the auth file behind a failing helper and read back
C1_Witness ==
    /\ SetThenGet /\ LoginSurvives(Prev) /\ LookupReaches(Prev)
    /\ StoredInAuths(Prev)
    /\ IndexOf(Prev.by) > 1
    /\ validateKey(Key).isNamespaced
    /\ Last.creds = LoginRecord

\* a successful set directly followed by a remove of the same key
SetThenRemove ==
    /\ N >= 2
    /\ Prev.op = "set" /\ Succeeded(Prev)
    /\ Last.op = "remove"

\* a successful set, a successful remove, then a get without inline credential
SetRemoveThenGet ==
    /\ N >= 3
    /\ hist[N - 2].op = "set" /\ Succeeded(hist[N - 2])
    /\ Prev.op = "remove" /\ Succeeded(Prev)
    /\ Last.op = "get" /\ Last.inline = << >>

BackendsUsable ==
    LET p == getPathToAuth
        namespaced == validateKey(Key).isNamespaced
    IN  \A i \in 1..Len(helpers) :
            IF helpers[i] = AuthenticationFileHelper
            THEN /\ p.err = NoErr
                 /\ ~p.path.legacyFormat
                 /\ parse(p.path, fs).err = NoErr
                 /\ (~namespaced /\ Key \in DOMAIN PrimaryCredHelpers(Now))
                        => hmode[PrimaryCredHelpers(Now)[Key]] = "ok"
            ELSE namespaced \/ hmode[helpers[i]] = "ok"

IsPrimary(path) == getPathToAuth.err = NoErr /\ path = getPathToAuth.path

\* the auths key f of a file at path is one that a lookup of K accepts
AuthKeyMatches(f, path) ==
    \/ ~path.legacyFormat /\ \E i \in 1..Len(authKeysForKey(Key)) : authKeysForKey(Key)[i] = f
    \/ path.legacyFormat /\ f = RegistryOf(Key)
    \/ normalizeAuthFileKey(f, path.legacyFormat) = normalizeRegistry(RegistryOf(Key))

\* something other than what a set of K stores and a remove of K deletes answers for K:
\* an auths entry other than auths[K] of the primary file, a helper named by a credHelpers
\* entry other than the primary file's entry for K, or, for a namespaced K, an external helper
ElseHeld ==
    LET reg == RegistryOf(Key)
        paths == getAuthFilePaths
        InFile(path) ==
            LET d == parse(path, fs) IN
            /\ d.err = NoErr
            /\ \/ /\ reg \in DOMAIN d.auths.CredHelpers
                  /\ ~(IsPrimary(path) /\ reg = Key)
                  /\ reg \in DOMAIN hs[d.auths.CredHelpers[reg]]
               \/ \E f \in DOMAIN d.auths.AuthConfigs :
                    ~(IsPrimary(path) /\ f = Key) /\ AuthKeyMatches(f, path)
    IN  \E i \in 1..Len(helpers) :
            IF helpers[i] = AuthenticationFileHelper
            THEN \E j \in 1..Len(paths) : InFile(paths[j])
            ELSE validateKey(Key).isNamespaced /\ reg \in DOMAIN hs[helpers[i]]

HeldIn(files, stores) ==
    [files |-> [f \in DOMAIN files |->
                    IF files[f].fmt = "malformed" THEN MalformedDoc
                    ELSE IF files[f].fmt = "legacy" THEN ConfigFile(UnmarshalLegacy(files[f]), EmptyMap)
                    ELSE UnmarshalModern(files[f])],
     helpers |-> stores]

\* C3: after SetCredentials(K, u, p) and a successful RemoveAuthentication(K), a second
\* RemoveAuthentication(K) returns exactly ErrNotLoggedIn, and the credentials held in
\* the files and in the helpers are the same before and after it.
C3_SecondRemoveNotLoggedIn ==
    [][ ( /\ SetThenRemove /\ Succeeded(Last)
          /\ Len(hist') = N + 1
          /\ hist'[N + 1].op = "remove" )
        => /\ hist'[N + 1].err = << Err("NotLoggedIn") >>
           /\ HeldIn(fs', hs') = HeldIn(fs, hs) ]_vars

\* C3 witness: set, successful remove, and a second remove that reports ErrNotLoggedIn
\* after asking an external helper of the chain and rewriting the auth file
C3_Witness ==
    /\ N >= 3
    /\ hist[N - 2].op = "set" /\ Succeeded(hist[N - 2])
    /\ Prev.op = "remove" /\ Succeeded(Prev)
    /\ Last.op = "remove" /\ Last.err = << Err("NotLoggedIn") >>
    /\ \E i \in 1..Len(Last.tr) : Last.tr[i][1] = "erase"
    /\ \E i \in 1..Len(Last.tr) : Last.tr[i][1] = "write"

\* the step is a call of op: it appends one record of that operation to hist
Calls(op) == Len(hist') = N + 1 /\ hist'[N + 1].op = op

\* the events of a trace whose command is cmd
Events(tr, cmd) == {i \in 1..Len(tr) : tr[i][1] = cmd}

\* a trace invokes cmd of this helper program
Invokes(tr, cmd, helper) == \E i \in Events(tr, cmd) : tr[i][2] = helper

\* auths[k] is in the primary auth file, a file in the current format that parses
InPrimaryAuths(k, files) ==
    LET p == getPathToAuth IN
    /\ p.err = NoErr
    /\ ~p.path.legacyFormat
    /\ parse(p.path, files).err = NoErr
    /\ p.path.path \in DOMAIN files
    /\ k \in DOMAIN parse(p.path, files).auths.AuthConfigs

\* C4 (as claimed): RemoveAuthentication(K) attempts the removal in every helper of the
\* chain whatever the outcome in the others; if auths[K] is in the primary auth file and
\* the file helper is in the chain, auths[K] is gone from the file when the call returns,
\* even when the erase in another helper failed.  (Stated for a file that names no
\* helper of its own for K, so that the only other helpers are those of the chain.)
C4_RemovePurgesEveryBackend ==
    [][ (Calls("remove") /\ validateKey(Key).err = NoErr)
        => /\ \A i \in 1..Len(helpers) :
                IF helpers[i] = AuthenticationFileHelper
                THEN getPathToAuth.err = NoErr /\ ~getPathToAuth.path.legacyFormat
                        => Events(hist'[N + 1].tr, "parse") # {}
                ELSE ~validateKey(Key).isNamespaced
                        => Invokes(hist'[N + 1].tr, "erase", helpers[i])
           /\ ( /\ InPrimaryAuths(Key, fs)
                /\ Key \notin DOMAIN PrimaryCredHelpers(Now)
                /\ \E i \in 1..Len(helpers) : helpers[i] = AuthenticationFileHelper )
              => ~InPrimaryAuths(Key, fs') ]_vars

\* the outcomes of a lookup of K in one helper, on the backends as they are: those that
\* yield a non-empty credential without error, and the others
Yields(helper) ==
    {r \in GetStep(helper, Key, RegistryOf(Key), Now) : r.err = NoErr /\ r.creds # EmptyCreds}

YieldsNone(helper) == GetStep(helper, Key, RegistryOf(Key), Now) \ Yields(helper)

\* the ways the first i helpers of the chain are consulted, in order, once each, and
\* yield nothing: what is done, and the errors met
RECURSIVE Passed(_)
Passed(i) ==
    IF i = 0 THEN {[tr |-> << >>, err |-> << >>]}
    ELSE {[tr |-> p.tr \o r.w.tr,
           err |-> IF r.err # NoErr THEN Append(p.err, r.err) ELSE p.err]
          : p \in Passed(i - 1), r \in YieldsNone(helpers[i])}

\* a get of a valid key without inline credential is the last call
LookedUp ==
    /\ N >= 1
    /\ Last.op = "get" /\ Last.inline = << >>
    /\ validateKey(Key).err = NoErr

\* C5: GetCredentials consults the helpers in order and returns, without error, the
\* non-empty credential of the first helper that yields one, whatever errors the earlier
\* helpers returned, and consults no helper after it; only when no helper yields one
\* does it return the errors met, in order, or else the empty record.
C5_FirstPositiveMatch ==
    LookedUp =>
        IF Last.creds # EmptyCreds
        THEN \E i \in 1..Len(helpers) :
                \E p \in Passed(i - 1), r \in Yields(helpers[i]) :
                    /\ Last.by = helpers[i]
                    /\ Last.err = << >>
                    /\ Last.creds = r.creds
                    /\ Last.tr = p.tr \o r.w.tr
        ELSE \E p \in Passed(Len(helpers)) :
                /\ Last.by = NoHelper
                /\ Last.err = p.err
                /\ Last.tr = p.tr

\* C5 witness: the second helper of the chain yields the credential after the first failed
C5_Witness ==
    /\ LookedUp
    /\ Len(helpers) = 2
    /\ Last.by = helpers[2]
    /\ Succeeded(Last) /\ Last.creds # EmptyCreds
    /\ \E r \in GetStep(helpers[1], Key, RegistryOf(Key), Now) : r.err # NoErr

\* what the i-th helper of the chain does with SetCredentials(K, u, p) on the backends
\* as they are
Stores(i) ==
    SetStep(helpers[i], Key, validateKey(Key).isNamespaced, args.username, args.password, Now)

\* the helpers of the chain that store the credential, by their place in the chain
Storing == {i \in 1..Len(helpers) : Stores(i).err = NoErr}

\* what the first i helpers do, in order, when each of them fails: a helper that fails
\* leaves the backends as they are
RECURSIVE Failed(_)
Failed(i) ==
    IF i = 0 THEN [tr |-> << >>, err |-> << >>]
    ELSE [tr |-> Failed(i - 1).tr \o Stores(i).w.tr,
          err |-> Append(Failed(i - 1).err, Stores(i).err)]

\* C6: SetCredentials returns success if and only if some helper of the chain stored the
\* credential; then the first such helper in chain order, and no other, performed a
\* store, its description is returned and no later helper is invoked; otherwise the
\* errors of all helpers are returned, in order, and nothing is stored.
C6_WritesStopAtFirstSuccess ==
    [][ (Calls("set") /\ validateKey(Key).err = NoErr)
        => LET call == hist'[N + 1] IN
           /\ Succeeded(call) <=> Storing # {}
           /\ IF Storing # {}
              THEN LET first == CHOOSE i \in Storing : \A j \in Storing : i <= j IN
                   /\ call.by = helpers[first]
                   /\ call.desc = Stores(first).desc
                   /\ fs' = Stores(first).w.fs
                   /\ hs' = Stores(first).w.hs
                   /\ fs' # fs \/ hs' # hs \/ Events(Stores(first).w.tr, "write") # {}
                            \/ Events(Stores(first).w.tr, "store") # {}
                   /\ call.tr = Failed(first - 1).tr \o Stores(first).w.tr
              ELSE /\ call.err = Failed(Len(helpers)).err
                   /\ Len(call.err) = Len(helpers)
                   /\ call.tr = Failed(Len(helpers)).tr
                   /\ fs' = fs /\ hs' = hs ]_vars

\* C6 witness: the first helper failed, the second stored, and only the second's store
\* took effect
C6_Witness ==
    /\ N >= 1 /\ Last.op = "set" /\ Succeeded(Last)
    /\ Len(helpers) = 2 /\ Last.by = helpers[2]
    /\ helpers[1] \in ExternalHelpers /\ helpers[2] \in ExternalHelpers
    /\ Invokes(Last.tr, "store", helpers[1])
    /\ Key \notin DOMAIN hs[helpers[1]]
    /\ Key \in DOMAIN hs[helpers[2]]
    /\ hs[helpers[2]][Key] = [Username |-> args.username, Secret |-> args.password]

\* the chain consists of external helpers only
ExternalOnly == \A i \in 1..Len(helpers) : helpers[i] # AuthenticationFileHelper

\* C7: for a namespaced key and a chain of external helpers only, SetCredentials fails
\* with the namespace-unsupported error of every helper of the chain, no helper program
\* is invoked and nothing is stored.
C7_NamespacedKeyRejected ==
    [][ ( /\ Calls("set")
          /\ validateKey(Key).err = NoErr /\ validateKey(Key).isNamespaced
          /\ ExternalOnly )
        => LET call == hist'[N + 1] IN
           /\ call.err = [i \in 1..Len(helpers) |-> unsupportedNamespaceErr]
           /\ call.err # << >>
           /\ call.tr = << >>
           /\ hs' = hs /\ fs' = fs ]_vars

\* C7 witness: a set of a namespaced key on a chain of two external helpers that work
\* was refused
C7_Witness ==
    /\ N >= 1 /\ Last.op = "set"
    /\ validateKey(Key).err = NoErr /\ validateKey(Key).isNamespaced
    /\ ExternalOnly /\ Len(helpers) = 2
    /\ \A i \in 1..Len(helpers) : hmode[helpers[i]] = "ok"
    /\ Last.err = << unsupportedNamespaceErr, unsupportedNamespaceErr >>

\* the keys the claim calls invalid: a key that starts with http:// or https://, holds
\* an '@', or holds a ':' somewhere after its first '/'
ClaimedInvalid(k) ==
    \/ Len(k) >= Len(HttpPrefix) /\ SubSeq(k, 1, Len(HttpPrefix)) = HttpPrefix
    \/ Len(k) >= Len(HttpsPrefix) /\ SubSeq(k, 1, Len(HttpsPrefix)) = HttpsPrefix
    \/ \E i \in 1..Len(k) : k[i] = "@"
    \/ \E i, j \in 1..Len(k) : i < j /\ k[i] = "/" /\ k[j] = ":"

\* sample keys: every string of at most MaxKeyLen of these characters, alone and behind
\* each scheme prefix, and localhost:5000/foo
KeyAlphabet == {"q", "/", ":", "@"}
MaxKeyLen == 3
ShortKeys == UNION {[1..n -> KeyAlphabet] : n \in 0..MaxKeyLen}
KeyLocalhost ==
    << "l", "o", "c", "a", "l", "h", "o", "s", "t", ":", "5", "0", "0", "0", "/", "f", "o", "o" >>
SampleKeys ==
    ShortKeys \cup {HttpPrefix \o k : k \in ShortKeys} \cup {HttpsPrefix \o k : k \in ShortKeys}
        \cup {KeyLocalhost, KeyPort}

\* C8: GetCredentials, SetCredentials and RemoveAuthentication of a key that starts with
\* http:// or https://, holds an '@' or holds a ':' after its first '/' return the
\* invalid-key error, having read and written no file, invoked no helper and changed
\* nothing; validateKey refuses exactly those keys, and it accepts localhost:5000/foo
\* (':' before the first '/' only) as a namespaced key, which no call then refuses.
C8_InvalidKeyRejectedFirst ==
    [][ /\ \A op \in {"get", "set", "remove"} :
              (Calls(op) /\ ClaimedInvalid(Key))
              => LET call == hist'[N + 1] IN
                 /\ call.err = << Err("InvalidKey") >>
                 /\ call.creds = EmptyCreds
                 /\ call.tr = << >>
                 /\ fs' = fs /\ hs' = hs
        /\ \A op \in {"get", "set", "remove"} :
              (Calls(op) /\ ~ClaimedInvalid(Key))
              => \A i \in 1..Len(hist'[N + 1].err) : hist'[N + 1].err[i] # Err("InvalidKey")
        /\ (hist = << >> /\ ClaimedInvalid(Key)) =>
              /\ \A k \in SampleKeys : ClaimedInvalid(k) <=> validateKey(k).err = Err("InvalidKey")
              /\ \A k \in SampleKeys : ~ClaimedInvalid(k) => validateKey(k).err = NoErr
              /\ validateKey(KeyLocalhost) = [isNamespaced |-> TRUE, err |-> NoErr]
              /\ validateKey(KeyPort) = [isNamespaced |-> TRUE, err |-> NoErr] ]_vars

\* C8 witness: a get, a set and a remove of host/repo:tag, each refused, on a chain with
\* the file helper whose auth file and helper programs hold an entry under that very key
C8_Witness ==
    /\ N = 3
    /\ Key = KeyTag
    /\ {hist[i].op : i \in 1..N} = {"get", "set", "remove"}
    /\ \A i \in 1..N : hist[i].err = << Err("InvalidKey") >> /\ hist[i].tr = << >>
    /\ \E i \in 1..Len(helpers) : helpers[i] = AuthenticationFileHelper
    /\ InPrimaryAuths(Key, fs)
    /\ \A h \in ExternalHelpers : Key \in DOMAIN hs[h]

\* the resolved primary auth path is in legacy format
LegacyPrimary == getPathToAuth.err = NoErr /\ getPathToAuth.path.legacyFormat

InChain(helper) == \E i \in 1..Len(helpers) : helpers[i] = helper

LegacyWriteErr == Err("LegacyWrite")

\* C9: when the resolved primary auth path is in legacy format, the file helper's part of
\* SetCredentials, RemoveAuthentication and RemoveAllAuthentication fails with the
\* legacy-write error without reading the file or running the editor, and the call
\* leaves every file as it was: the legacy file keeps its content and is not created.
C9_LegacyNeverWritten ==
    [][ \A op \in {"set", "remove", "removeAll"} :
          ( /\ Calls(op)
            /\ LegacyPrimary
            /\ InChain(AuthenticationFileHelper)
            /\ op # "removeAll" => validateKey(Key).err = NoErr )
          => LET call == hist'[N + 1]
                 file == IndexOf(AuthenticationFileHelper)
                 st0 == [w |-> Now, multiErr |-> << >>, isLoggedIn |-> FALSE]
             IN
             /\ fs' = fs
             /\ Events(call.tr, "parse") = {} /\ Events(call.tr, "write") = {}
             /\ op = "set" =>
                  /\ Stores(file) = [desc |-> << >>, err |-> LegacyWriteErr, w |-> Now]
                  /\ IF Succeeded(call)
                     THEN call.by \in ExternalHelpers
                     ELSE call.err[file] = LegacyWriteErr
             /\ op = "remove" =>
                  /\ RemoveStep(AuthenticationFileHelper, Key, validateKey(Key).isNamespaced, st0)
                        = [st0 EXCEPT !.multiErr = << LegacyWriteErr >>]
                  /\ \E i \in 1..Len(call.err) : call.err[i] = LegacyWriteErr
             /\ op = "removeAll" =>
                  /\ RemoveAllStep(AuthenticationFileHelper, Now)
                        = {[err |-> LegacyWriteErr, w |-> Now]}
                  /\ \E i \in 1..Len(call.err) : call.err[i] = LegacyWriteErr ]_vars

\* C9 witness: a set, a remove and a remove-all were refused on a legacy primary file
\* that exists and holds a credential for the registry of the key
C9_Witness ==
    /\ N = 3
    /\ LegacyPrimary /\ InChain(AuthenticationFileHelper)
    /\ hist[1].op = "set" /\ hist[2].op = "remove" /\ hist[3].op = "removeAll"
    /\ \A i \in 1..N : \E j \in 1..Len(hist[i].err) : hist[i].err[j] = LegacyWriteErr
    /\ getPathToAuth.path.path \in DOMAIN fs
    /\ fs[getPathToAuth.path.path] = LegacyDoc(One(RegistryOf(Key), OtherEntry))

\* a modifyJSON call that has new data to write is under way or over
Writing == txn.pc # "idle" /\ txn.newData # << >>

\* the document a reader gets of the target before the call, and after it
ParsedPre == parse(getPathToAuth.path, IF txn.pre = << >> THEN EmptyMap ELSE One(Target, txn.pre[1]))
ParsedPost == parse(getPathToAuth.path, One(Target, txn.newData[1]))

\* C10: at every point of a modifyJSON call that writes, the crash between marshalling
\* and rename included, the auth file is the whole document of before the call or the
\* whole new document, and so is what a reader parses of it; until the rename, and
\* after a crash, it is the one of before the call.
C10_AtomicReplacement ==
    Writing =>
        /\ Content(fs, Target) \in {txn.pre, txn.newData}
        /\ parse(getPathToAuth.path, fs) \in {ParsedPre, ParsedPost}
        /\ txn.seen # << >> => txn.seen[1] \in {ParsedPre, ParsedPost}
        /\ txn.pc \in {"marshalled", "writing", "crashed"} => Content(fs, Target) = txn.pre
        /\ txn.pc = "done" => Content(fs, Target) = txn.newData

\* C10 witness: the call crashed with the new data partly written, the auth file still
\* holds the credential it held, and a reader parsed it
C10_Witness ==
    /\ Writing
    /\ txn.pc = "crashed"
    /\ txn.written = 1
    /\ txn.pre # << >> /\ txn.pre # txn.newData
    /\ InPrimaryAuths(Key, fs)
    /\ txn.seen = << ParsedPre >>
    /\ ParsedPre # ParsedPost

\* the number of events of a trace that are this very event
Count(tr, event) == Cardinality({i \in 1..Len(tr) : tr[i] = event})

\* a successful RemoveAllAuthentication on a chain with the file helper
RemovesAll == Calls("removeAll") /\ Succeeded(hist'[N + 1]) /\ InChain(AuthenticationFileHelper)

\* the document {"auths": {}, "credHelpers": {}}
BothFieldsEmpty == ModernDoc([f \in {"auths", "credHelpers"} |-> EmptyMap])

\* the document {"auths": {}}
AuthsFieldEmpty == ModernDoc([f \in {"auths"} |-> EmptyMap])

\* C11 (as claimed): after a successful RemoveAllAuthentication on a chain with the file
\* helper the primary auth file holds the document {"auths": {}, "credHelpers": {}}, and
\* the erase of r on h was invoked exactly once for every credHelpers entry r -> h.
C11_RemoveAllWritesBothFields ==
    [][ RemovesAll
        => /\ Content(fs', Target) = << BothFieldsEmpty >>
           /\ \A r \in DOMAIN PrimaryCredHelpers(Now) :
                Count(hist'[N + 1].tr, << "erase", PrimaryCredHelpers(Now)[r], r >>) = 1 ]_vars

\* C11 (amended): after a successful RemoveAllAuthentication on a chain with the file
\* helper the primary auth file holds the document {"auths": {}}: the empty credHelpers
\* field is left out, and the file parses to empty auths and empty credHelpers; the
\* erase of r on h was invoked exactly once for every credHelpers entry r -> h.
C11_RemoveAllEmptiesFile ==
    [][ RemovesAll
        => /\ Content(fs', Target) = << AuthsFieldEmpty >>
           /\ parse(getPathToAuth.path, fs') = [auths |-> ConfigFile(EmptyMap, EmptyMap), err |-> NoErr]
           /\ \A r \in DOMAIN PrimaryCredHelpers(Now) :
                Count(hist'[N + 1].tr, << "erase", PrimaryCredHelpers(Now)[r], r >>) = 1 ]_vars

\* C11 witness: a remove-all parsed the auth file, erased the registry of its credHelpers
\* entry in the helper h2, wrote the file, and the file is {"auths": {}}
C11_Witness ==
    /\ N >= 1 /\ Last.op = "removeAll" /\ Succeeded(Last)
    /\ InChain(AuthenticationFileHelper)
    /\ \E i \in 1..(Len(Last.tr) - 2) :
          /\ Last.tr[i] = << "parse", Target >>
          /\ Last.tr[i + 1] = << "erase", "h2", RegistryOf(Key) >>
          /\ Last.tr[i + 2] = << "write", Target >>
    /\ Content(fs, Target) = << AuthsFieldEmpty >>

\* the scopes of a key: the key cut before one of its '/', and the key itself
Candidates(k) == {SubSeq(k, 1, n) : n \in {m \in 1..Len(k) : m = Len(k) \/ k[m + 1] = "/"}}

\* the most specific scope of k that has an entry in the map m
MostSpecific(k, m) ==
    CHOOSE c \in Candidates(k) \cap DOMAIN m : \A d \in Candidates(k) \cap DOMAIN m : Len(d) <= Len(c)

\* the file at path is in the current format, parses, and names no helper for the
\* registry of K
ModernNoHelper(path) ==
    /\ ~path.legacyFormat
    /\ parse(path, fs).err = NoErr
    /\ RegistryOf(Key) \notin DOMAIN parse(path, fs).auths.CredHelpers

\* the scopes of K that have an entry in auths of the file at path
Existing(path) == Candidates(Key) \cap DOMAIN parse(path, fs).auths.AuthConfigs

\* C12: in a file of the current format without credHelpers entry for the registry of K,
\* the entry matcher returns the decoded auths entry of the first existing candidate in
\* the order K, K without its last '/'-segment, ..., the bare registry: the most specific
\* scope that has an entry; a GetCredentials(K) whose first helper is the file helper
\* returns that credential when the primary auth file is such a file.
C12_MostSpecificEntryWins ==
    LET keys == authKeysForKey(Key)
        paths == getAuthFilePaths
        Decoded(path) ==
            LET m == parse(path, fs).auths.AuthConfigs
            IN  decodeDockerAuth(m[MostSpecific(Key, m)])
        Wins(path) ==
            LET d == Decoded(path) IN
            findCredentialsInFile(Key, RegistryOf(Key), path, Now)
                = {[creds |-> d.creds, err |-> d.err,
                    w |-> Traced(Now, << "parse", path.path >>)]}
        primary == getPathToAuth
    IN
    /\ keys[1] = Key /\ keys[Len(keys)] = RegistryOf(Key)
    /\ {keys[i] : i \in 1..Len(keys)} = Candidates(Key)
    /\ \A i \in 1..(Len(keys) - 1) : Len(keys[i + 1]) < Len(keys[i])
    /\ \A i \in 1..Len(paths) :
          (ModernNoHelper(paths[i]) /\ Existing(paths[i]) # {}) => Wins(paths[i])
    /\ ( /\ LookedUp /\ helpers[1] = AuthenticationFileHelper
         /\ primary.err = NoErr
         /\ ModernNoHelper(primary.path) /\ Existing(primary.path) # {}
         /\ Decoded(primary.path).creds # EmptyCreds )
       => /\ Succeeded(Last)
          /\ Last.creds = Decoded(primary.path).creds

\* C12 witness: a lookup of q/t/i in a file with entries for q/t and q, and none for
\* q/t/i, returned the credential of q/t
C12_Witness ==
    /\ LookedUp /\ helpers[1] = AuthenticationFileHelper
    /\ Key = KeyQTI
    /\ ModernNoHelper(getPathToAuth.path)
    /\ Existing(getPathToAuth.path) = {KeyQT, KeyQ}
    /\ Last.creds = decodeDockerAuth(ScopeEntry(KeyQT)).creds
    /\ Last.creds # decodeDockerAuth(ScopeEntry(KeyQ)).creds
    /\ Last.creds # EmptyCreds

\* the file at path parses and names a helper for the registry of K
Delegates(path) ==
    /\ parse(path, fs).err = NoErr
    /\ RegistryOf(Key) \in DOMAIN parse(path, fs).auths.CredHelpers

\* the helper the file at path names for the registry of K
DelegateOf(path) == parse(path, fs).auths.CredHelpers[RegistryOf(Key)]

\* the files, with the auths entries of the file at path taken out
WithoutAuths(path) ==
    [fs EXCEPT ![path.path] =
        ModernDoc([f \in {"auths", "credHelpers"} |->
                      IF f = "auths" THEN EmptyMap ELSE parse(path, fs).auths.CredHelpers])]

\* what the helper program holds for the registry, as the record GetCredentials returns
Held(helper, registry) ==
    IF registry \notin DOMAIN hs[helper] THEN EmptyCreds
    ELSE IF hs[helper][registry].Username = TokenUsername
    THEN [Username |-> << >>, Password |-> << >>, IdentityToken |-> hs[helper][registry].Secret]
    ELSE [Username |-> hs[helper][registry].Username, Password |-> hs[helper][registry].Secret,
          IdentityToken |-> << >>]

\* C13: when a parsed auth file has credHelpers[registry] for the registry of K, the
\* lookup of K in that file returns exactly the result of get(registry) of that helper,
\* the empty record when the helper holds nothing and its error when it fails, and the
\* auths entries of the file play no part: the result is the one for the same file
\* without them; a GetCredentials(K) that meets such a file asks that helper next.
C13_CredHelpersDelegation ==
    LET reg == RegistryOf(Key)
        paths == getAuthFilePaths
        parsed(path) == Traced(Now, << "parse", path.path >>)
    IN
    /\ \A i \in 1..Len(paths) :
          Delegates(paths[i])
          => LET h == DelegateOf(paths[i])
                 res == findCredentialsInFile(Key, reg, paths[i], Now)
             IN
             /\ res = {getAuthFromCredHelper(h, reg, parsed(paths[i]))}
             /\ res = {[r EXCEPT !.w.fs = fs]
                       : r \in findCredentialsInFile(Key, reg, paths[i],
                                                     World(WithoutAuths(paths[i]), hs, << >>))}
             /\ \A r \in res :
                   /\ r.w.tr = << << "parse", paths[i].path >>, << "get", h, reg >> >>
                   /\ IF hmode[h] = "ok"
                      THEN r.err = NoErr /\ r.creds = Held(h, reg)
                      ELSE r.err # NoErr /\ r.creds = EmptyCreds
    /\ ( /\ LookedUp /\ helpers[1] = AuthenticationFileHelper
         /\ getPathToAuth.err = NoErr /\ Delegates(getPathToAuth.path) )
       => /\ Len(Last.tr) >= 2
          /\ Last.tr[1] = << "parse", Target >>
          /\ Last.tr[2] = << "get", DelegateOf(getPathToAuth.path), reg >>
          /\ ( hmode[DelegateOf(getPathToAuth.path)] = "ok"
               /\ Held(DelegateOf(getPathToAuth.path), reg) # EmptyCreds )
             => Succeeded(Last) /\ Last.creds = Held(DelegateOf(getPathToAuth.path), reg)

\* C13 witness: a lookup of K in a file that has both auths[K] and credHelpers[K], whose
\* helper holds nothing for K, asked the helper and returned the empty record
C13_Witness ==
    /\ LookedUp /\ helpers = << AuthenticationFileHelper >>
    /\ Delegates(getPathToAuth.path)
    /\ InPrimaryAuths(Key, fs)
    /\ decodeDockerAuth(parse(getPathToAuth.path, fs).auths.AuthConfigs[Key]).creds # EmptyCreds
    /\ hmode[DelegateOf(getPathToAuth.path)] = "ok"
    /\ Held(DelegateOf(getPathToAuth.path), RegistryOf(Key)) = EmptyCreds
    /\ Invokes(Last.tr, "get", DelegateOf(getPathToAuth.path))
    /\ Succeeded(Last) /\ Last.creds = EmptyCreds

\* inline credentials a context may carry: a login, an identity token, the empty record
InlineSamples ==
    {InlineCreds,
     [Username |-> << >>, Password |-> << >>, IdentityToken |-> << "t" >>],
     EmptyCreds}

\* a GetCredentials(K) with this inline credential returns it and does nothing else
ShortCircuits(c) ==
    getCredentialsWithHomeDir(Key, << c >>, Now)
        = {[creds |-> c, err |-> << >>, by |-> NoHelper, w |-> Now]}

\* a get whose context carries an inline credential is the last call
LookedUpInline == N >= 1 /\ Last.op = "get" /\ Last.inline # << >>

\* C14 (as claimed): when the context carries an inline credential, GetCredentials returns
\* exactly that credential, without error, whatever the key, having read no file and
\* invoked no helper.
C14_InlineShortCircuitAlways ==
    /\ \A c \in InlineSamples : ShortCircuits(c)
    /\ LookedUpInline =>
          /\ Succeeded(Last) /\ Last.creds = Last.inline[1]
          /\ Last.tr = << >> /\ Last.by = NoHelper

\* C14 (amended): when the context carries an inline credential and the key passes
\* validateKey, GetCredentials returns exactly that credential, without error, having
\* read no file, invoked no helper and changed nothing, whatever the chain, the files
\* and the helper programs hold.
C14_InlineShortCircuit ==
    validateKey(Key).err = NoErr =>
        /\ \A c \in InlineSamples : ShortCircuits(c)
        /\ LookedUpInline =>
              /\ Succeeded(Last) /\ Last.creds = Last.inline[1]
              /\ Last.tr = << >> /\ Last.by = NoHelper

\* C14 witness: a get with an inline credential returned it although the first helper
\* of the chain holds another credential for K
C14_Witness ==
    /\ LookedUpInline
    /\ validateKey(Key).err = NoErr
    /\ Last.creds = InlineCreds /\ Last.tr = << >>
    /\ Yields(helpers[1]) # {}
    /\ \A r \in Yields(helpers[1]) : r.creds # InlineCreds

\* the events of a trace that run get, store or erase of a helper program
HelperCalls(tr) == Events(tr, "get") \cup Events(tr, "store") \cup Events(tr, "erase")

\* C15: in every GetCredentials, SetCredentials and RemoveAuthentication call, every get,
\* store and erase of a helper program, be it a helper of the chain or one named by
\* credHelpers, has an argument without '/': the registry; and every record the call
\* adds to a helper program is keyed by a string without '/'.
C15_HelpersAddressedByRegistry ==
    [][ \A op \in {"get", "set", "remove"} :
          Calls(op)
          => LET tr == hist'[N + 1].tr IN
             /\ \A i \in HelperCalls(tr) :
                   /\ ~ContainsRune(tr[i][3], "/")
                   /\ tr[i][3] = RegistryOf(Key)
             /\ \A h \in ExternalHelpers :
                   \A reg \in DOMAIN hs'[h] \ DOMAIN hs[h] : ~ContainsRune(reg, "/") ]_vars

\* C15 witness: for a namespaced key whose auth file names a helper under the key itself,
\* a get asked a helper program for the registry, a set was not stored in any helper
\* program, and a remove ran no erase
C15_Witness ==
    /\ N = 3
    /\ validateKey(Key).err = NoErr /\ validateKey(Key).isNamespaced
    /\ Key \in DOMAIN PrimaryCredHelpers(Now)
    /\ \E h \in ExternalHelpers : InChain(h)
    /\ InChain(AuthenticationFileHelper)
    /\ hist[1].op = "get" /\ hist[1].inline = << >>
    /\ \E i \in Events(hist[1].tr, "get") : hist[1].tr[i][3] = RegistryOf(Key)
    /\ hist[2].op = "set" /\ HelperCalls(hist[2].tr) = {}
    /\ hist[3].op = "remove" /\ HelperCalls(hist[3].tr) = {}
    /\ Events(hist[3].tr, "parse") # {}

\* a GetAllCredentials is the last call
ListedAll == N >= 1 /\ Last.op = "getAll"

\* the auth files a listing parses, and the helper programs it lists: those of the chain
ListedPaths ==
    IF InChain(AuthenticationFileHelper)
    THEN {getAuthFilePaths[i] : i \in 1..Len(getAuthFilePaths)}
    ELSE {}
ListedHelpers == {h \in ExternalHelpers : InChain(h)}

\* the listing fails: a file does not parse, or a helper program fails
ListingFails ==
    \/ \E path \in ListedPaths : parse(path, fs).err # NoErr
    \/ \E h \in ListedHelpers : hmode[h] = "error"

\* the auths keys of the files, each with the format of its file; the credHelpers keys
\* of the files; the registries the helper programs hold
AuthsKeys ==
    UNION {{[key |-> k, legacyFormat |-> path.legacyFormat]
            : k \in DOMAIN parse(path, fs).auths.AuthConfigs} : path \in ListedPaths}
CredHelpersKeys == UNION {DOMAIN parse(path, fs).auths.CredHelpers : path \in ListedPaths}
HelperRegistries == UNION {IF hmode[h] = "ok" THEN DOMAIN hs[h] ELSE {} : h \in ListedHelpers}

\* the auths key normalizes to index.docker.io
IsDockerKey(a) == normalizeAuthFileKey(a.key, a.legacyFormat) = IndexDockerIO

\* C16 (as claimed): every key GetAllCredentials lists, and every key of its result map,
\* that normalizes to index.docker.io is docker.io, never index.docker.io or
\* registry-1.docker.io, whatever backend it comes from.
C16_DockerIOEverywhere ==
    ListedAll =>
        \A k \in Last.allKeys \cup DOMAIN Last.authConfigs :
            normalizeRegistry(k) = IndexDockerIO => k = DockerIO

\* C16 (amended): GetAllCredentials lists every auths key of the auth files by its
\* normalization, and docker.io in place of a normalization index.docker.io; the
\* credHelpers keys of the files and the registries the helper programs list are listed
\* as they are, index.docker.io and registry-1.docker.io included.  The keys of the
\* result map are among the keys listed.
C16_DockerIOReexposed ==
    (ListedAll /\ ~ListingFails) =>
        /\ Last.allKeys =
              {IF IsDockerKey(a) THEN DockerIO ELSE normalizeAuthFileKey(a.key, a.legacyFormat)
               : a \in AuthsKeys} \cup CredHelpersKeys \cup HelperRegistries
        /\ \A a \in AuthsKeys : IsDockerKey(a) => DockerIO \in Last.allKeys
        /\ \A k \in {IndexDockerIO, Registry1DockerIO} :
              k \in Last.allKeys => k \in CredHelpersKeys \cup HelperRegistries
        /\ DOMAIN Last.authConfigs \subseteq Last.allKeys

\* C16 witness: the only entry, under https://index.docker.io/v1/ in a legacy file, was
\* listed as docker.io, and the result map holds its credential under docker.io
C16_Witness ==
    /\ ListedAll /\ ~ListingFails /\ Succeeded(Last)
    /\ AuthsKeys = {[key |-> DockerUrlKey, legacyFormat |-> TRUE]}
    /\ CredHelpersKeys = {} /\ HelperRegistries = {}
    /\ Last.allKeys = {DockerIO}
    /\ DOMAIN Last.authConfigs = {DockerIO}
    /\ Last.authConfigs[DockerIO] = decodeDockerAuth(OtherEntry).creds

\* a get of a valid key without inline credential, on a chain that starts with the file
\* helper, is the last call
FileLookup == LookedUp /\ helpers[1] = AuthenticationFileHelper

\* what the entry matcher returns for K in the file at the i-th auth path
YieldAt(i) == findCredentialsInFile(Key, RegistryOf(Key), getAuthFilePaths[i], Now)

\* the i-th auth path yields a non-empty record, fails, yields the empty record
YieldsRecord(r) == r.err = NoErr /\ r.creds # EmptyCreds
Silent(r) == r.err = NoErr /\ r.creds = EmptyCreds

\* the paths of the files a call parsed, in the order in which it parsed them
IsParse(e) == e[1] = "parse"
RECURSIVE PathsOf(_)
PathsOf(tr) ==
    IF tr = << >> THEN << >>
    ELSE IF IsParse(tr[1]) THEN << tr[1][2] >> \o PathsOf(Tail(tr))
    ELSE PathsOf(Tail(tr))

\* C17 (as claimed): in the file helper's step of GetCredentials, if any auth path yields
\* a non-empty record for the key, the step returns the record of the earliest such path.
C17_AnyPathYields ==
    FileLookup =>
        \A i \in 1..Len(getAuthFilePaths) :
            ( /\ \E r \in YieldAt(i) : YieldsRecord(r)
              /\ \A j \in 1..(i - 1) : \A r \in YieldAt(j) : ~YieldsRecord(r) )
            => /\ Succeeded(Last) /\ Last.by = AuthenticationFileHelper
               /\ Last.creds \in {r.creds : r \in YieldAt(i)}

\* C17 (amended): the file helper's step of GetCredentials examines the auth paths in
\* resolver order up to the first path that yields a non-empty record or fails: it
\* returns that record, or fails with that error without examining the later paths,
\* whatever they hold; when every path yields the empty record, so does the step.
C17_FirstDecisivePath ==
    FileLookup =>
        \E n \in 1..Len(getAuthFilePaths) :
            /\ \A j \in 1..(n - 1) : \E r \in YieldAt(j) : Silent(r)
            /\ Len(PathsOf(Last.tr)) = n
            /\ \A j \in 1..n : PathsOf(Last.tr)[j] = getAuthFilePaths[j].path
            /\ \/ \E r \in YieldAt(n) :
                    /\ YieldsRecord(r)
                    /\ Succeeded(Last) /\ Last.by = AuthenticationFileHelper
                    /\ Last.creds = r.creds
               \/ \E r \in YieldAt(n) :
                    /\ r.err # NoErr
                    /\ Last.by # AuthenticationFileHelper
                    /\ Succeeded(Last) \/ Last.err[1] = r.err
               \/ /\ n = Len(getAuthFilePaths)
                  /\ \E r \in YieldAt(n) : Silent(r)
                  /\ Last.by # AuthenticationFileHelper

\* C17 witness: no file at the first path, entries of their own for K in the files at
\* the second and third path and in the legacy file: the lookup parsed the first two
\* files and returned the record of the second
C17_Witness ==
    /\ FileLookup /\ Len(getAuthFilePaths) = 4
    /\ getAuthFilePaths[1].path \notin DOMAIN fs
    /\ \A i \in 2..4 : YieldAt(i) = {[creds |-> decodeDockerAuth(PathEntry(i)).creds, err |-> NoErr,
                                      w |-> Traced(Now, << "parse", getAuthFilePaths[i].path >>)]}
    /\ decodeDockerAuth(PathEntry(2)).creds # decodeDockerAuth(PathEntry(3)).creds
    /\ Succeeded(Last) /\ Last.creds = decodeDockerAuth(PathEntry(2)).creds
    /\ PathsOf(Last.tr) = << getAuthFilePaths[1].path, getAuthFilePaths[2].path >>

\* the step is a SetCredentials, RemoveAuthentication or RemoveAllAuthentication that
\* reaches the file helper of the chain: a set stops at the first helper that stores
Modifies ==
    \/ Calls("removeAll") /\ InChain(AuthenticationFileHelper)
    \/ Calls("remove") /\ InChain(AuthenticationFileHelper) /\ validateKey(Key).err = NoErr
    \/ Calls("set") /\ helpers[1] = AuthenticationFileHelper /\ validateKey(Key).err = NoErr

\* the paths of the files a call parsed or wrote
FilesOf(tr) == {tr[i][2] : i \in Events(tr, "parse") \cup Events(tr, "write")}

\* $XDG_RUNTIME_DIR is what decides the primary path, and the directory does not exist
RuntimeDirMissing ==
    /\ sys = SysDefault /\ env.goOS = "linux"
    /\ env.XDG_RUNTIME_DIR # NoPath /\ ~env.runtimeDirExists

\* the two sets of files are the same but for the file at path
SameBut(files, files2, path) ==
    \A f \in (DOMAIN files \cup DOMAIN files2) \ {path} : Content(files, f) = Content(files2, f)

\* C18 (as claimed): in every context and environment where the first of the auth paths
\* that the lookups read is not in legacy format, a modify transaction of set, remove and
\* remove-all reads that file, and reads and writes no other; so also when
\* $XDG_RUNTIME_DIR names a directory that does not exist, with the first of the
\* remaining paths.
C18_WritesUseFirstReadPath ==
    [][ (Modifies /\ ~getAuthFilePaths[1].legacyFormat)
        => /\ FilesOf(hist'[N + 1].tr) = {getAuthFilePaths[1].path}
           /\ SameBut(fs, fs', getAuthFilePaths[1].path) ]_vars

\* C18 (amended): whenever the primary path resolves, it is the first of the auth paths
\* the lookups read, and a modify transaction of set, remove and remove-all reads and
\* writes that file and no other (no file when the path is in legacy format).  When
\* $XDG_RUNTIME_DIR names a directory that does not exist, the lookups leave that path
\* out, without error, and read the remaining three paths in order; the modify
\* transaction fails with the error of the path resolution, and reads and writes no file.
C18_WritesUsePrimaryPath ==
    [][ LET p == getPathToAuth
            paths == getAuthFilePaths
            call == hist'[N + 1]
        IN
        /\ p.err = NoErr => paths[1] = p.path
        /\ p.err # NoErr <=> RuntimeDirMissing
        /\ RuntimeDirMissing =>
              /\ Len(paths) = 3
              /\ \A i \in 1..3 : ~HasPrefix(paths[i].path, env.XDG_RUNTIME_DIR)
        /\ (Modifies /\ p.err = NoErr /\ ~p.path.legacyFormat) =>
              /\ FilesOf(call.tr) = {paths[1].path}
              /\ SameBut(fs, fs', paths[1].path)
        /\ (Modifies /\ RuntimeDirMissing) =>
              /\ FilesOf(call.tr) = {}
              /\ fs' = fs
              /\ call.by # AuthenticationFileHelper
              /\ Succeeded(call) \/ InSeq(p.err, call.err)
        /\ (Calls("get") /\ call.inline = << >> /\ validateKey(Key).err = NoErr
              /\ helpers[1] = AuthenticationFileHelper /\ RuntimeDirMissing) =>
              /\ ~InSeq(p.err, call.err)
              /\ PathsOf(call.tr) # << >>
              /\ \A i \in 1..Len(PathsOf(call.tr)) : PathsOf(call.tr)[i] = paths[i].path
      ]_vars

\* C18 witness: with $XDG_RUNTIME_DIR naming a directory that does not exist, a lookup
\* read the remaining paths and returned the entry of the legacy file, the last of
\* them; the set that followed failed with the error of the path resolution and read
\* and wrote no file, the file helper being the only helper
C18_Witness ==
    /\ RuntimeDirMissing /\ helpers = << AuthenticationFileHelper >>
    /\ N = 2
    /\ Prev.op = "get" /\ Succeeded(Prev) /\ Prev.creds = decodeDockerAuth(OtherEntry).creds
    /\ PathsOf(Prev.tr) = [i \in 1..3 |-> getAuthFilePaths[i].path]
    /\ Last.op = "set" /\ Last.err = << getPathToAuth.err >> /\ Last.tr = << >>
    /\ DOMAIN fs = {getAuthFilePaths[3].path}

\* the canonical name of a registry: docker.io and registry-1.docker.io are index.docker.io
Canonical(reg) == IF reg \in {DockerIO, Registry1DockerIO} THEN IndexDockerIO ELSE reg

\* a key of a file without its leading http:// or https://
Unschemed(f) ==
    IF HasPrefix(f, HttpPrefix) THEN SubSeq(f, Len(HttpPrefix) + 1, Len(f))
    ELSE IF HasPrefix(f, HttpsPrefix) THEN SubSeq(f, Len(HttpsPrefix) + 1, Len(f))
    ELSE f

\* a string up to its first '/'
HostOf(s) == SubSeq(s, 1, CHOOSE n \in 0..Len(s) :
                            /\ \A j \in 1..n : s[j] # "/"
                            /\ n < Len(s) => s[n + 1] = "/")

\* the normalization of a key of a file
FileKeyNorm(f, legacyFormat) ==
    Canonical(IF legacyFormat \/ Unschemed(f) # f THEN HostOf(Unschemed(f)) ELSE Unschemed(f))

\* the auths entries of the file at the i-th auth path
AuthsAt(i) == parse(getAuthFilePaths[i], fs).auths.AuthConfigs

\* the file at the i-th auth path parses, names no helper for the registry of K, and
\* has no entry under a candidate key of K
NoCandidateAt(i) ==
    /\ validateKey(Key).err = NoErr
    /\ parse(getAuthFilePaths[i], fs).err = NoErr
    /\ RegistryOf(Key) \notin DOMAIN parse(getAuthFilePaths[i], fs).auths.CredHelpers
    /\ DOMAIN AuthsAt(i) \cap (IF getAuthFilePaths[i].legacyFormat
                               THEN {RegistryOf(Key)} ELSE Candidates(Key)) = {}

\* the keys of the file at the i-th auth path whose normalization is the canonical
\* registry of K
MatchingAt(i) ==
    {f \in DOMAIN AuthsAt(i) :
        FileKeyNorm(f, getAuthFilePaths[i].legacyFormat) = Canonical(RegistryOf(Key))}

\* C19: when the file has no entry under a candidate key and no credHelpers entry for
\* the registry, the entry matcher returns the decoded entry of a key of the file whose
\* normalization (scheme stripped; cut at the first '/' if a scheme was stripped or the
\* file is legacy; docker.io and registry-1.docker.io mapped to index.docker.io) is the
\* canonical registry of the lookup key, and the empty record if there is none; a
\* GetCredentials that such a file decides returns such an entry.
C19_NormalizedFallback ==
    /\ \A f \in UNION {DOMAIN AuthsAt(i) : i \in 1..Len(getAuthFilePaths)} :
          \A legacyFormat \in BOOLEAN :
              normalizeAuthFileKey(f, legacyFormat) = FileKeyNorm(f, legacyFormat)
    /\ \A i \in 1..Len(getAuthFilePaths) :
          NoCandidateAt(i) =>
              YieldAt(i) =
                 IF MatchingAt(i) = {}
                 THEN {[creds |-> EmptyCreds, err |-> NoErr,
                        w |-> Traced(Now, << "parse", getAuthFilePaths[i].path >>)]}
                 ELSE {[creds |-> decodeDockerAuth(AuthsAt(i)[f]).creds,
                        err |-> decodeDockerAuth(AuthsAt(i)[f]).err,
                        w |-> Traced(Now, << "parse", getAuthFilePaths[i].path >>)]
                       : f \in MatchingAt(i)}
    /\ (FileLookup /\ Last.by = AuthenticationFileHelper
          /\ NoCandidateAt(Len(PathsOf(Last.tr))))
       => \E f \in MatchingAt(Len(PathsOf(Last.tr))) :
              Last.creds = decodeDockerAuth(AuthsAt(Len(PathsOf(Last.tr)))[f]).creds

\* C19 witness: the only file is the legacy file, with the one entry
\* https://index.docker.io/v1/; the lookup of docker.io/l/a read all four paths and
\* returned that entry
C19_Witness ==
    /\ FileLookup /\ Key = KeyAlpine
    /\ Len(getAuthFilePaths) = 4 /\ getAuthFilePaths[4].legacyFormat
    /\ DOMAIN fs = {getAuthFilePaths[4].path}
    /\ NoCandidateAt(4)
    /\ DOMAIN AuthsAt(4) = {DockerUrlKey} /\ MatchingAt(4) = {DockerUrlKey}
    /\ Len(PathsOf(Last.tr)) = 4
    /\ Succeeded(Last) /\ Last.by = AuthenticationFileHelper
    /\ Last.creds = decodeDockerAuth(OtherEntry).creds
    /\ Last.creds # EmptyCreds

\* helper a stands before helper b in the chain
Precedes(a, b) ==
    \E i, j \in 1..Len(helpers) : i < j /\ helpers[i] = a /\ helpers[j] = b

\* the erase of the credHelpers entry r -> h fails when the file helper's step runs it:
\* the helper program fails, or holds nothing for r, as after its own step of the chain
EraseFails(r, h) ==
    \/ hmode[h] # "ok"
    \/ r \notin DOMAIN hs[h]
    \/ Precedes(h, AuthenticationFileHelper)

\* the step is a RemoveAllAuthentication whose file helper's step meets a credHelpers
\* entry of the primary file whose erase fails
RemoveAllMeetsFailure ==
    /\ Calls("removeAll") /\ InChain(AuthenticationFileHelper)
    /\ \E r \in DOMAIN PrimaryCredHelpers(Now) : EraseFails(r, PrimaryCredHelpers(Now)[r])

\* the external helpers of the chain
ChainHelpers == {h \in ExternalHelpers : InChain(h)}

\* C20: if the erase of a credHelpers entry fails in the file helper's step of
\* RemoveAllAuthentication, the auth file is left as it was, auths and credHelpers
\* retained, the error is among the errors returned, and every other helper of the
\* chain is still processed: listed, and emptied if its program works.
C20_RemoveAllAbortsOnFailure ==
    [][ RemoveAllMeetsFailure
        => LET call == hist'[N + 1] IN
           /\ fs' = fs
           /\ Events(call.tr, "write") = {}
           /\ parse(getPathToAuth.path, fs').auths = parse(getPathToAuth.path, fs).auths
           /\ DOMAIN parse(getPathToAuth.path, fs').auths.CredHelpers # {}
           /\ \E i \in 1..Len(call.err) :
                 call.err[i] \in {Wrap("updating", Err("HelperError")),
                                  Wrap("updating", Err("CredentialsNotFound"))}
           /\ Len(call.err) = 1 + Cardinality({i \in 1..Len(helpers) :
                                                 /\ helpers[i] \in ExternalHelpers
                                                 /\ hmode[helpers[i]] = "error"})
           /\ \A h \in ChainHelpers :
                 /\ Count(call.tr, << "list", h, << >> >>) >= 1
                 /\ hmode[h] = "ok" => hs'[h] = EmptyMap
                 /\ \A r \in DOMAIN hs[h] :
                       (hmode[h] = "ok" /\ Precedes(AuthenticationFileHelper, h))
                       => \E i \in Events(call.tr, "erase") :
                             /\ call.tr[i] = << "erase", h, r >>
                             /\ \E j \in 1..(i - 1) : call.tr[j][1] = "parse"
      ]_vars

\* C20 witness: the file names the helper h2 for the key, and h2 is not installed; the
\* remove-all on the chain of the file helper and h1 parsed the file, failed to erase
\* from h2, wrote nothing, and went on to list h1 and erase what it held
C20_Witness ==
    /\ N = 1 /\ Last.op = "removeAll"
    /\ helpers = << AuthenticationFileHelper, "h1" >>
    /\ hmode["h2"] = "missing"
    /\ Last.tr = << << "parse", Target >>, << "erase", "h2", RegistryOf(Key) >>,
                    << "list", "h1", << >> >>, << "erase", "h1", RegistryOf(Key) >> >>
    /\ Last.err = << Wrap("updating", Err("HelperError")) >>
    /\ hs["h1"] = EmptyMap
    /\ DOMAIN parse(getPathToAuth.path, fs).auths.CredHelpers = {RegistryOf(Key)}

\* the step is a SetCredentials of a valid key that starts with the file helper, on a
\* primary auth file in the current format that parses (or is absent)
SetsInFile ==
    /\ Calls("set") /\ validateKey(Key).err = NoErr
    /\ helpers[1] = AuthenticationFileHelper
    /\ getPathToAuth.err = NoErr /\ ~getPathToAuth.path.legacyFormat
    /\ parse(getPathToAuth.path, fs).err = NoErr

\* the record a helper program holds for the caller's login
LoginStored == [Username |-> args.username, Secret |-> args.password]

\* C21: in the file helper's step of SetCredentials, if credHelpers[key] exists the
\* credential is stored in the helper it names, or the step fails if the key is
\* namespaced, and the auth file is not written: its auths and credHelpers stay as they
\* are; only when there is no credHelpers[key] is auths[key] set to
\* base64(user + ":" + secret) and the file written, credHelpers staying as it is.
C21_EmbeddedHelperLeavesFile ==
    [][ SetsInFile
        => LET call == hist'[N + 1]
               before == parse(getPathToAuth.path, fs).auths
               after == parse(getPathToAuth.path, fs').auths
           IN
           IF Key \in DOMAIN before.CredHelpers THEN
               LET ch == before.CredHelpers[Key] IN
               /\ fs' = fs
               /\ Events(call.tr, "write") = {}
               /\ call.tr[1] = << "parse", Target >>
               /\ IF validateKey(Key).isNamespaced THEN
                      /\ Stores(1).err = Wrap("updating", unsupportedNamespaceErr)
                      /\ call.by # AuthenticationFileHelper
                      /\ Events(call.tr, "store") = {}
                      /\ hs' = hs
                  ELSE IF hmode[ch] = "ok" THEN
                      /\ Succeeded(call) /\ call.by = AuthenticationFileHelper
                      /\ call.desc = << "credential helper", ch >>
                      /\ call.tr = << << "parse", Target >>, << "store", ch, Key >> >>
                      /\ hs' = [hs EXCEPT ![ch] = MapPut(@, Key, LoginStored)]
                  ELSE
                      /\ Stores(1).err = Wrap("updating", Err("HelperError"))
                      /\ call.by # AuthenticationFileHelper
                      /\ call.tr[2] = << "store", ch, Key >>
                      /\ hs'[ch] = hs[ch]
           ELSE
               /\ Succeeded(call) /\ call.by = AuthenticationFileHelper
               /\ call.desc = Target
               /\ call.tr = << << "parse", Target >>, << "write", Target >> >>
               /\ hs' = hs
               /\ Target \in DOMAIN fs'
               /\ parse(getPathToAuth.path, fs').err = NoErr
               /\ after.AuthConfigs =
                     MapPut(before.AuthConfigs, Key,
                            AuthEntry(EncodeToString(args.username \o << ":" >> \o args.password),
                                      << >>))
               /\ after.CredHelpers = before.CredHelpers
      ]_vars

\* C21 witness: the file names the helper h2 for the key; the set stored the login in
\* h2 and wrote no file, and the file has no auths entry for the key
C21_Witness ==
    /\ N = 1 /\ Last.op = "set" /\ Succeeded(Last)
    /\ helpers[1] = AuthenticationFileHelper
    /\ Key \in DOMAIN PrimaryCredHelpers(Now)
    /\ PrimaryCredHelpers(Now)[Key] = "h2"
    /\ Last.tr = << << "parse", Target >>, << "store", "h2", Key >> >>
    /\ hs["h2"][Key] = LoginStored
    /\ Key \notin DOMAIN parse(getPathToAuth.path, fs).auths.AuthConfigs

\* every call has returned
AllReturned == \A w \in Writers : txn.of[w].pc = "done"

\* the writers whose call wrote a new document
Wrote == {w \in Writers : txn.of[w].pc # "idle" /\ txn.of[w].newData # << >>}

\* the document modifyJSON marshals for this editor from the file content pre, with the
\* helper programs as in held
OutputOf(editor, pre, held) ==
    editJSON(editor, [w |-> World(IF pre = << >> THEN EmptyMap ELSE One(Target, pre[1]),
                                  held, << >>),
                      multiErr |-> << >>, isLoggedIn |-> FALSE]).newData

\* C22: when two modifyJSON calls on the same auth file interleave, the file is at every
\* moment the document it held before them or the whole document of the call that
\* renamed last, which that call computed from the content it parsed; it is never a
\* document that is the output of neither call, and in the end it is the output of the
\* last rename, whatever the other call wrote.
C22_LastWriterWins ==
    txn.pc = "two" =>
        /\ \A w \in Wrote :
              txn.of[w].newData = OutputOf(txn.of[w].editor, txn.of[w].pre, txn.of[w].hsPre)
        /\ \A w \in Writers :
              txn.of[w].pc # "idle" =>
                  txn.of[w].pre \in {txn.orig} \cup {txn.of[v].newData : v \in Wrote \ {w}}
        /\ {txn.renamed[i] : i \in 1..Len(txn.renamed)} \subseteq Wrote
        /\ Content(fs, Target) =
              IF txn.renamed = << >> THEN txn.orig
              ELSE txn.of[txn.renamed[Len(txn.renamed)]].newData
        /\ parse(getPathToAuth.path, fs).err = NoErr <=>
              (txn.orig # << MalformedDoc >> \/ txn.renamed # << >>)
        /\ AllReturned => \A w \in Wrote : \E i \in 1..Len(txn.renamed) : txn.renamed[i] = w

\* C22 witness: the file held an entry for the registry; b removed everything and a set
\* the key, both from the file as it was before them; b renamed first and a last: the
\* file holds the entry b removed next to the one a set, and b's update is lost
C22_Witness ==
    /\ txn.pc = "two" /\ AllReturned
    /\ txn.renamed = << "b", "a" >>
    /\ txn.of["a"].editor.op = "set" /\ txn.of["a"].editor.key = Key
    /\ txn.of["b"].editor.op = "removeAll"
    /\ txn.of["a"].pre = txn.orig /\ txn.of["b"].pre = txn.orig
    /\ Key # RegistryOf(Key)
    /\ txn.of["b"].newData = << AuthsFieldEmpty >>
    /\ DOMAIN parse(getPathToAuth.path, fs).auths.AuthConfigs = {RegistryOf(Key), Key}
    /\ Content(fs, Target) = txn.of["a"].newData
    /\ Content(fs, Target) # txn.of["b"].newData

\* C23 (as claimed): for an auths entry whose decoded auth holds a ':', the decoded
\* username is the text before the first ':' and the decoded password the text after
\* it without its trailing NUL bytes, every other byte kept, leading NUL bytes and
\* further ':' included.
C23_TrimsOnlyTrailingNuls ==
    \A i \in 1..Len(getAuthFilePaths) :
        \A f \in DOMAIN AuthsAt(i) :
            LET decoded == DecodeString(AuthsAt(i)[f].Auth)
                parts == Cut(decoded.str, ":")
                creds == decodeDockerAuth(AuthsAt(i)[f]).creds
            IN  (decoded.ok /\ parts.found)
                => /\ creds.Username = parts.before
                   /\ creds.Password = TrimRight(parts.after, NUL)

\* the last call is a successful RemoveAllAuthentication on the chain of the file
\* helper alone
LoggedOutOfAll ==
    /\ N >= 1 /\ Last.op = "removeAll" /\ Succeeded(Last)
    /\ helpers = << AuthenticationFileHelper >>

\* C24 (as claimed): after a successful RemoveAllAuthentication on the chain of the file
\* helper alone, GetAllCredentials returns the empty map and GetCredentials(K) the empty
\* record for every valid key K, whatever the auth files on the path list held.
C24_RemoveAllLogsOut ==
    /\ LoggedOutOfAll =>
          /\ \A r \in GetAllCredentials(<< >>, Now) :
                r.err = << >> /\ r.authConfigs = EmptyMap
          /\ \A k \in ValidKeys :
                \A r \in getCredentialsWithHomeDir(k, << >>, Now) :
                    r.err = << >> /\ r.creds = EmptyCreds
    /\ ( /\ N >= 2 /\ Prev.op = "removeAll" /\ Succeeded(Prev)
         /\ helpers = << AuthenticationFileHelper >>
         /\ LookedUp )
       => Succeeded(Last) /\ Last.creds = EmptyCreds


\* the step is a SetCredentials that succeeds by writing auths[K] of the primary auth file
FileSetReturns ==
    /\ Calls("set") /\ Succeeded(hist'[N + 1])
    /\ StoredInAuths(hist'[N + 1])

\* the fields of the document in the primary auth file, as they are in the file
RawFields(files) ==
    IF Target \in DOMAIN files /\ files[Target].fmt = "modern" THEN files[Target].fields
    ELSE EmptyMap

RawField(files, f) == IF f \in DOMAIN RawFields(files) THEN RawFields(files)[f] ELSE EmptyMap

\* C25 (as claimed): a successful SetCredentials(K, u, p) that stores into the file
\* backend changes only the entry auths[K] of the primary auth file: everything else in
\* that file, its other auths entries and its credHelpers entries among it, keeps its
\* value, no other file is written, and no helper's store or erase is invoked.
C25_MinimalFootprint ==
    [][ FileSetReturns
        => LET call == hist'[N + 1] IN
           /\ SameBut(fs, fs', Target)
           /\ \A f \in DOMAIN RawFields(fs) \ {"auths"} :
                 f \in DOMAIN RawFields(fs') /\ RawFields(fs')[f] = RawFields(fs)[f]
           /\ DOMAIN RawField(fs', "auths") = DOMAIN RawField(fs, "auths") \cup {Key}
           /\ \A k \in DOMAIN RawField(fs, "auths") \ {Key} :
                 RawField(fs', "auths")[k] = RawField(fs, "auths")[k]
           /\ Events(call.tr, "store") = {}
           /\ Events(call.tr, "erase") = {}
      ]_vars

\* C25 (amended): a successful SetCredentials(K, u, p) that stores into the file backend
\* rewrites the primary auth file and no other file.  In it auths[K] becomes the new
\* entry, every other auths entry keeps its auth and identitytoken, and every credHelpers
\* entry keeps its value; the fields that dockerConfigFile and dockerAuthConfig do not
\* declare are dropped.  No helper's erase is invoked and no helper's content changes:
\* the stores that are invoked are those of the helpers before the file helper in the
\* chain, and each of them failed.
C25_FootprintOfDeclaredFields ==
    [][ FileSetReturns
        => LET call == hist'[N + 1]
               before == parse(getPathToAuth.path, fs).auths
               after == parse(getPathToAuth.path, fs').auths
           IN
           /\ SameBut(fs, fs', Target)
           /\ DOMAIN RawFields(fs') \subseteq {"auths", "credHelpers"}
           /\ \A k \in DOMAIN RawField(fs', "auths") :
                 DOMAIN RawField(fs', "auths")[k] = {"Auth", "IdentityToken"}
           /\ after.AuthConfigs =
                 MapPut(before.AuthConfigs, Key,
                        AuthEntry(EncodeToString(args.username \o << ":" >> \o args.password),
                                  << >>))
           /\ after.CredHelpers = before.CredHelpers
           /\ hs' = hs
           /\ Events(call.tr, "erase") = {}
           /\ \A i \in Events(call.tr, "store") :
                 \E j \in 1..(IndexOf(AuthenticationFileHelper) - 1) :
                    /\ call.tr[i] = << "store", helpers[j], Key >>
                    /\ hmode[helpers[j]] # "ok"
      ]_vars

\* C25 witness: the helper h1 failed to store, then the file helper rewrote the primary
\* auth file, which held an entry with an "email", a credHelpers entry and a
\* "credsStore": the new entry is beside the old one, and the undeclared fields are gone
C25_Witness ==
    /\ N = 1 /\ Last.op = "set" /\ Succeeded(Last) /\ StoredInAuths(Last)
    /\ helpers = << "h1", AuthenticationFileHelper >>
    /\ Key = KeyQ
    /\ Last.tr = << << "store", "h1", Key >>, << "parse", Target >>, << "write", Target >> >>
    /\ DOMAIN RawFields(fs) = {"auths", "credHelpers"}
    /\ RawField(fs, "auths") =
          MapPut(One(RegistryOf(KeyPort), OtherEntry), Key,
                 AuthEntry(EncodeToString(args.username \o << ":" >> \o args.password), << >>))
    /\ RawField(fs, "credHelpers") = One(KeyPort, "h2")
    /\ hs = [h \in ExternalHelpers |-> EmptyMap]


\* two GetCredentials of K without inline credential, one directly after the other: the
\* files and the helper programs are the same for both
TwoLookups ==
    /\ N >= 2
    /\ Prev.op = "get" /\ Prev.inline = << >>
    /\ Last.op = "get" /\ Last.inline = << >>

\* C26 (as claimed): for the same files, helper programs, chain and key, two executions
\* of GetCredentials return the same credential record and the same error, whatever the
\* order in which the auths map is ranged over, also when several keys of a file
\* normalize to the registry in the fallback pass.
C26_GetDeterministic ==
    TwoLookups => Prev.creds = Last.creds /\ Prev.err = Last.err

=============================================================================
